---- MODULE Spec2Model ----
(***************************************************************************)
(* Verification model of the documentation section index of grafana/mcp-k6 *)
(* (internal/sections): section extraction from file paths, the            *)
(* multi-version indexer and its runtime lookup tables, the JSON           *)
(* serializer/loader, the Finder queries and the depth-limited tree        *)
(* builder.                                                                *)
(*                                                                         *)
(* Go strings are modelled as sequences of byte values, so that the        *)
(* string functions of the code (TrimPrefix, TrimSuffix, LastIndex,        *)
(* Split, <) are computed byte by byte as the Go runtime computes them.    *)
(* The model is of a build for a platform whose filepath.Separator is '/'. *)
(***************************************************************************)
EXTENDS Integers, Sequences, FiniteSets, TLC

(***************************************************************************)
(* Bounds of the model.                                                    *)
(***************************************************************************)
\* largest number of files in the documentation corpus (all versions together)
MaxFiles == 2
\* largest frontmatter weight
MaxWeight == 1
\* largest number of aliases one file declares
MaxAliases == 1
\* largest depth requested from the tree builder
MaxDepth == 2
\* largest section list handed directly to the tree builder
MaxSections == 3
\* entries of a frontmatter block
MaxEntries == 3
\* callers that query the loaded index at the same time
MaxCallers == 2

(***************************************************************************)
(* String literals of the program and of the sample corpus, as bytes.      *)
(***************************************************************************)
EmptyStr == <<>>
\* string(filepath.Separator) on the modelled platform
Sep == <<47>>
\* "/" : the slug separator
Slash == <<47>>
\* "."
Dot == <<46>>
\* ".md"
MdExt == <<46, 109, 100>>
\* "_index"
IndexName == <<95, 105, 110, 100, 101, 120>>
\* "docs/k6/"
DocsPrefix == <<100, 111, 99, 115, 47, 107, 54, 47>>
\* "a", "b", "x", "zz"
StrA == <<97>>
StrB == <<98>>
StrX == <<120>>
StrZZ == <<122, 122>>
\* "A", "B" (titles)
TitleA == <<65>>
TitleB == <<66>>
\* "v1.4.x", "v1.3.x", "v0.9.x"
V14 == <<118, 49, 46, 52, 46, 120>>
V13 == <<118, 49, 46, 51, 46, 120>>
V09 == <<118, 48, 46, 57, 46, 120>>
\* "docs" : the docs root directory handed to the indexer
DocsRoot == <<100, 111, 99, 115>>

(***************************************************************************)
(* Go's strings package.                                                   *)
(***************************************************************************)
HasPrefix(s, p) == Len(p) <= Len(s) /\ SubSeq(s, 1, Len(p)) = p

HasSuffix(s, x) == Len(x) <= Len(s) /\ SubSeq(s, Len(s) - Len(x) + 1, Len(s)) = x

TrimPrefix(s, p) == IF HasPrefix(s, p) THEN SubSeq(s, Len(p) + 1, Len(s)) ELSE s

TrimSuffix(s, x) == IF HasSuffix(s, x) THEN SubSeq(s, 1, Len(s) - Len(x)) ELSE s

\* strings.LastIndex(s, sep) for a one-byte sep: 0-based offset, -1 if absent
LastIndex(s, sep) ==
    LET hits == {i \in 1..Len(s) : s[i] = sep[1]}
    IN  IF hits = {} THEN -1
        ELSE (CHOOSE i \in hits : \A j \in hits : j <= i) - 1

\* strings.ReplaceAll(s, old, new) for one-byte old and new
ReplaceAll(s, old, new) ==
    [i \in 1..Len(s) |-> IF s[i] = old[1] THEN new[1] ELSE s[i]]

\* strings.Split(s, sep) for a one-byte sep: always at least one part
RECURSIVE Split(_, _)
Split(s, sep) ==
    LET hits == {i \in 1..Len(s) : s[i] = sep[1]}
    IN  IF hits = {} THEN <<s>>
        ELSE LET i == CHOOSE h \in hits : \A j \in hits : h <= j
             IN  <<SubSeq(s, 1, i - 1)>> \o Split(SubSeq(s, i + 1, Len(s)), sep)

\* strings.Join(parts, sep)
RECURSIVE Join(_, _)
Join(parts, sep) ==
    IF Len(parts) = 0 THEN EmptyStr
    ELSE IF Len(parts) = 1 THEN parts[1]
    ELSE parts[1] \o sep \o Join(Tail(parts), sep)

\* the Go comparison a < b of two strings: bytewise lexicographic
RECURSIVE StrLess(_, _)
StrLess(a, b) ==
    IF Len(b) = 0 THEN FALSE
    ELSE IF Len(a) = 0 THEN TRUE
    ELSE IF a[1] # b[1] THEN a[1] < b[1]
    ELSE StrLess(Tail(a), Tail(b))

(***************************************************************************)
(* Go's path/filepath, for the clean relative paths the walk produces.     *)
(***************************************************************************)
\* filepath.Join(dir, name) of two clean non-empty paths
PathJoin(dir, name) == dir \o Sep \o name

\* filepath.Dir(p): "." when p has no separator
PathDir(p) ==
    LET idx == LastIndex(p, Sep)
    IN  IF idx = -1 THEN Dot ELSE SubSeq(p, 1, idx)

\* filepath.Base(p)
PathBase(p) ==
    LET idx == LastIndex(p, Sep)
    IN  SubSeq(p, idx + 2, Len(p))

\* filepath.Rel(root, p) for a path p below root
PathRel(root, p) == TrimPrefix(p, root \o Sep)

(***************************************************************************)
(* parser.go: path-derived facts and section extraction.                   *)
(***************************************************************************)
\* buildHierarchy: the directory segments of relPath, empty for root files
buildHierarchy(relPath) ==
    LET dir == PathDir(relPath)
    IN  IF dir = Dot \/ dir = EmptyStr THEN <<>>
        ELSE SelectSeq(Split(dir, Sep), LAMBDA part : part # EmptyStr /\ part # Dot)

\* pathToSlug: strip ".md", then the separator-spelled and the '/'-spelled
\* "_index" suffix one after the other, then normalise separators
pathToSlug(relPath) ==
    LET s1 == TrimSuffix(relPath, MdExt)
        s2 == TrimSuffix(s1, Sep \o IndexName)
        s3 == TrimSuffix(s2, Slash \o IndexName)
    IN  ReplaceAll(s3, Sep, Slash)

\* The outcome of ParseFrontmatter on a file: err, or the decoded record.
\* A file of the corpus carries its outcome in the field fm.
ParseFrontmatter(file) == file.fm

\* ExtractSection(path, docsRoot): err is set when the frontmatter fails
ExtractSection(file, path, docsRoot) ==
    LET fm        == ParseFrontmatter(file)
        relPath   == PathRel(docsRoot, path)
        hierarchy == buildHierarchy(relPath)
    IN  [ err     |-> fm.err,
          section |-> [ Slug        |-> pathToSlug(relPath),
                        Path        |-> path,
                        RelPath     |-> relPath,
                        Title       |-> fm.Title,
                        Description |-> fm.Description,
                        Weight      |-> fm.Weight,
                        Aliases     |-> fm.Aliases,
                        Category    |-> IF Len(hierarchy) > 0 THEN hierarchy[1] ELSE EmptyStr,
                        Hierarchy   |-> hierarchy,
                        IsIndex     |-> PathBase(path) = IndexName \o MdExt ] ]

(***************************************************************************)
(* The documentation corpus on disk: the input of the indexer.             *)
(***************************************************************************)
\* version subdirectories that may exist under the docs root
VersionDirs == {V14, V13}

\* relative paths of the sample corpus below a version directory. The
\* current version holds "a.md", "b.md", "a/_index.md", "a/b.md" and the
\* non-markdown "a/n.txt"; the previous version holds "a.md".
RelPathsIn(dir) ==
    IF dir = V14
    THEN { StrA \o MdExt,
           StrB \o MdExt,
           StrA \o Sep \o IndexName \o MdExt,
           StrA \o Sep \o StrB \o MdExt,
           StrA \o Sep \o <<110, 46, 116, 120, 116>> }
    ELSE { StrA \o MdExt }

RelPaths == UNION { RelPathsIn(dir) : dir \in VersionDirs }

\* alias spellings found in frontmatter: "/a", "docs/k6/x", "/docs/k6/"
AliasSpellings == { Slash \o StrA, DocsPrefix \o StrX, Slash \o DocsPrefix }

RECURSIVE SeqsUpTo(_, _)
SeqsUpTo(S, n) ==
    IF n = 0 THEN {<<>>}
    ELSE LET shorter == SeqsUpTo(S, n - 1)
         IN  shorter \cup {Append(q, x) : q \in {r \in shorter : Len(r) = n - 1}, x \in S}

\* frontmatter outcomes: a decoded record, or the parse error
Frontmatters ==
    [ err : {FALSE}, Title : {TitleA, TitleB}, Description : {EmptyStr},
      Weight : 0..MaxWeight, Aliases : SeqsUpTo(AliasSpellings, MaxAliases) ]
    \cup
    [ err : {TRUE}, Title : {EmptyStr}, Description : {EmptyStr},
      Weight : {0}, Aliases : {<<>>} ]

\* a file: the version directory it is in, its path below it, its frontmatter
\* outcome (a non-markdown file is never parsed: it carries the empty record)
IsMarkdownName(name) == HasSuffix(name, MdExt)

NoFrontmatter ==
    [err |-> FALSE, Title |-> EmptyStr, Description |-> EmptyStr, Weight |-> 0, Aliases |-> <<>>]

Files ==
    { f \in [dir : VersionDirs, rel : RelPaths, fm : Frontmatters \cup {NoFrontmatter}] :
        /\ f.rel \in RelPathsIn(f.dir)
        /\ IF IsMarkdownName(f.rel) THEN f.fm \in Frontmatters ELSE f.fm = NoFrontmatter }

\* a corpus: at most MaxFiles files, no two at the same place
RECURSIVE CorporaOfSize(_)
CorporaOfSize(n) ==
    IF n = 0 THEN {{}}
    ELSE UNION { { c \cup {f} : f \in { g \in Files :
                        \A h \in c : ~(h.dir = g.dir /\ h.rel = g.rel) } } :
                 c \in CorporaOfSize(n - 1) }

Corpora == UNION { CorporaOfSize(n) : n \in 0..MaxFiles }

(***************************************************************************)
(* indexer.go: the walk, the sort and the runtime lookup tables.           *)
(***************************************************************************)
Range(q) == {q[i] : i \in 1..Len(q)}

\* a variant of DirExists for which every version directory exists
DirExistsAlways(corpus, version) == TRUE

\* os.Stat(versionPath): the version directory exists when it holds a file
DirExists(corpus, version) == \E f \in corpus : f.dir = version

\* the directories WalkDir visits below (and including) the version directory
WalkDirs(corpus, version) ==
    {EmptyStr} \cup
    UNION { { SubSeq(f.rel, 1, i - 1) : i \in {j \in 1..Len(f.rel) : f.rel[j] = Sep[1]} } :
            f \in {g \in corpus : g.dir = version} }

\* the entries WalkDir hands to the callback: directories and files
WalkEntries(corpus, version) ==
    { [isDir |-> TRUE, rel |-> d, file |-> [dir |-> version, rel |-> d, fm |-> NoFrontmatter]] :
        d \in WalkDirs(corpus, version) }
    \cup
    { [isDir |-> FALSE, rel |-> f.rel, file |-> f] : f \in {g \in corpus : g.dir = version} }

\* a variant of the walk callback that extracts a section from every file,
\* markdown or not
VisitEntryAnyFile(entry, versionPath) ==
    IF entry.isDir THEN {}
    ELSE LET r == ExtractSection(entry.file, PathJoin(versionPath, entry.rel), versionPath)
         IN  IF r.err THEN {} ELSE {r.section}

\* the walk callback: the sections it appends for one entry (none or one)
VisitEntry(entry, versionPath) ==
    IF entry.isDir \/ ~HasSuffix(PathBase(entry.rel), MdExt) THEN {}
    ELSE LET r == ExtractSection(entry.file, PathJoin(versionPath, entry.rel), versionPath)
         IN  IF r.err THEN {} ELSE {r.section}

\* the sections gathered by the walk of one version directory
WalkSections(corpus, docsRootPath, version) ==
    UNION { VisitEntry(e, PathJoin(docsRootPath, version)) : e \in WalkEntries(corpus, version) }

\* a variant of SectionLess: equal weights are not ordered by title
SectionLessWeightOnly(a, b) == a.Weight < b.Weight

\* the less function given to sort.Slice
SectionLess(a, b) ==
    IF a.Weight # b.Weight THEN a.Weight < b.Weight
    ELSE StrLess(a.Title, b.Title)

\* sort.Slice is not stable: every arrangement of the gathered sections in
\* which no section is less than one before it is a possible outcome
SortSlice(secs) ==
    { p \in [1..Cardinality(secs) -> secs] :
        /\ \A i, j \in DOMAIN p : i # j => p[i] # p[j]
        /\ \A i, j \in DOMAIN p : i < j => ~SectionLess(p[j], p[i]) }

\* a variant of CleanAlias that removes the leading "/" only
CleanAliasSlashOnly(alias) == TrimPrefix(alias, Slash)

\* the cleaned alias: one leading "/" removed, then one leading "docs/k6/"
CleanAlias(alias) == TrimPrefix(TrimPrefix(alias, Slash), DocsPrefix)

\* a Go map as a function; m[k] = v
MapPut(m, k, v) == [x \in (DOMAIN m) \cup {k} |-> IF x = k THEN v ELSE m[x]]

EmptyMap == [x \in {} |-> 0]

\* a variant of RegisterAliases: the presence check is dropped, the last
\* registrant of an alias owns it
RECURSIVE RegisterAliasesLastWins(_, _, _)
RegisterAliasesLastWins(bySlug, aliases, i) ==
    IF Len(aliases) = 0 THEN bySlug
    ELSE LET cleanAlias == CleanAlias(Head(aliases))
             next == IF cleanAlias # EmptyStr
                     THEN MapPut(bySlug, cleanAlias, i)
                     ELSE bySlug
         IN  RegisterAliasesLastWins(next, Tail(aliases), i)

\* the alias loop of buildRuntimeIndexes for section i: an alias is
\* registered only if non-empty and its key is not yet in the map
RECURSIVE RegisterAliases(_, _, _)
RegisterAliases(bySlug, aliases, i) ==
    IF Len(aliases) = 0 THEN bySlug
    ELSE LET cleanAlias == CleanAlias(Head(aliases))
             next == IF cleanAlias # EmptyStr /\ cleanAlias \notin DOMAIN bySlug
                     THEN MapPut(bySlug, cleanAlias, i)
                     ELSE bySlug
         IN  RegisterAliases(next, Tail(aliases), i)

\* a variant of RegisterSection: the primary slug is registered only when its key
\* is still free
RegisterSectionFirstWins(maps, secs, i) ==
    [ BySlug |-> RegisterAliases(
                    IF secs[i].Slug \in DOMAIN maps.BySlug THEN maps.BySlug
                    ELSE MapPut(maps.BySlug, secs[i].Slug, i),
                    secs[i].Aliases, i),
      ByPath |-> MapPut(maps.ByPath, secs[i].RelPath, i) ]

\* a variant of RegisterSection that files a section in the by-path map under
\* its slug
RegisterSectionPathBySlug(maps, secs, i) ==
    [ BySlug |-> RegisterAliases(MapPut(maps.BySlug, secs[i].Slug, i), secs[i].Aliases, i),
      ByPath |-> MapPut(maps.ByPath, secs[i].Slug, i) ]

\* one iteration of the section loop: primary slug (unconditional), relative
\* path, then the aliases. A map value i is the pointer &sections[i].
RegisterSection(maps, secs, i) ==
    [ BySlug |-> RegisterAliases(MapPut(maps.BySlug, secs[i].Slug, i), secs[i].Aliases, i),
      ByPath |-> MapPut(maps.ByPath, secs[i].RelPath, i) ]

\* the maps of one version after the first n sections have been indexed
RECURSIVE RegisterUpTo(_, _)
RegisterUpTo(secs, n) ==
    IF n = 0 THEN [BySlug |-> EmptyMap, ByPath |-> EmptyMap]
    ELSE RegisterSection(RegisterUpTo(secs, n - 1), secs, n)

\* a variant of buildRuntimeIndexes that creates the maps of a version only
\* when its list is not empty
buildRuntimeIndexesNonEmpty(idx) ==
    LET nonEmpty == {v \in DOMAIN idx.Sections : Len(idx.Sections[v]) > 0}
    IN  [ idx EXCEPT
            !.BySlug = [v \in nonEmpty |->
                            RegisterUpTo(idx.Sections[v], Len(idx.Sections[v])).BySlug],
            !.ByPath = [v \in nonEmpty |->
                            RegisterUpTo(idx.Sections[v], Len(idx.Sections[v])).ByPath] ]

\* buildRuntimeIndexes: both lookup maps of every version in Sections
buildRuntimeIndexes(idx) ==
    [ idx EXCEPT
        !.BySlug = [v \in DOMAIN idx.Sections |->
                        RegisterUpTo(idx.Sections[v], Len(idx.Sections[v])).BySlug],
        !.ByPath = [v \in DOMAIN idx.Sections |->
                        RegisterUpTo(idx.Sections[v], Len(idx.Sections[v])).ByPath] ]

\* a nil *SectionIndex
NilIndex == [nil |-> TRUE]

\* the Sections maps the version loop can produce: one sorted list per version
RECURSIVE SectionMaps(_, _, _)
SectionMaps(corpus, docsRootPath, versions) ==
    IF Len(versions) = 0 THEN {EmptyMap}
    ELSE { MapPut(m, Head(versions), sorted) :
             m \in SectionMaps(corpus, docsRootPath, Tail(versions)),
             sorted \in SortSlice(WalkSections(corpus, docsRootPath, Head(versions))) }

\* BuildMultiVersionIndex(docsRootPath, versions): the possible results
BuildMultiVersionIndex(corpus, docsRootPath, versions) ==
    IF Len(versions) = 0 THEN {[err |-> "no versions specified", index |-> NilIndex]}
    ELSE IF \E i \in 1..Len(versions) : ~DirExists(corpus, versions[i])
    THEN {[err |-> "version directory not found", index |-> NilIndex]}
    ELSE { [ err   |-> "",
             index |-> buildRuntimeIndexes(
                         [ Versions |-> versions,
                           Latest   |-> versions[1],
                           Sections |-> m,
                           BySlug   |-> EmptyMap,
                           ByPath   |-> EmptyMap ]) ] :
           m \in SectionMaps(corpus, docsRootPath, versions) }

\* BuildSectionIndex(docsPath, version): the single-version build. The walk
\* of a docsPath that does not exist fails.
BuildSectionIndex(corpus, docsRootPath, version) ==
    IF ~DirExists(corpus, version)
    THEN {[err |-> "failed to walk directory", index |-> NilIndex]}
    ELSE { [ err   |-> "",
             index |-> buildRuntimeIndexes(
                         [ Versions |-> <<version>>,
                           Latest   |-> version,
                           Sections |-> MapPut(EmptyMap, version, sorted),
                           BySlug   |-> EmptyMap,
                           ByPath   |-> EmptyMap ]) ] :
           sorted \in SortSlice(WalkSections(corpus, docsRootPath, version)) }

(***************************************************************************)
(* indexer.go, types: the JSON document. A JSON object is a function from  *)
(* its member names; the struct tags decide which members exist.           *)
(***************************************************************************)
\* a variant of MarshalSection: the aliases member is never written
MarshalSectionNoAliases(sec) ==
    [ m \in {"slug", "rel_path", "title", "description", "weight",
             "category", "hierarchy", "is_index"} |->
        CASE m = "slug"        -> sec.Slug
          [] m = "rel_path"    -> sec.RelPath
          [] m = "title"       -> sec.Title
          [] m = "description" -> sec.Description
          [] m = "weight"      -> sec.Weight
          [] m = "category"    -> sec.Category
          [] m = "hierarchy"   -> sec.Hierarchy
          [] m = "is_index"    -> sec.IsIndex ]

\* json.Marshal of a Section: Path is tagged "-", aliases is omitempty
MarshalSection(sec) ==
    LET members == {"slug", "rel_path", "title", "description", "weight",
                    "category", "hierarchy", "is_index"}
                   \cup (IF Len(sec.Aliases) > 0 THEN {"aliases"} ELSE {})
    IN  [ m \in members |->
            CASE m = "slug"        -> sec.Slug
              [] m = "rel_path"    -> sec.RelPath
              [] m = "title"       -> sec.Title
              [] m = "description" -> sec.Description
              [] m = "weight"      -> sec.Weight
              [] m = "aliases"     -> sec.Aliases
              [] m = "category"    -> sec.Category
              [] m = "hierarchy"   -> sec.Hierarchy
              [] m = "is_index"    -> sec.IsIndex ]

\* json.Unmarshal into a Section: an absent member leaves the zero value
UnmarshalSection(obj) ==
    [ Slug        |-> obj["slug"],
      Path        |-> EmptyStr,
      RelPath     |-> obj["rel_path"],
      Title       |-> obj["title"],
      Description |-> obj["description"],
      Weight      |-> obj["weight"],
      Aliases     |-> IF "aliases" \in DOMAIN obj THEN obj["aliases"] ELSE <<>>,
      Category    |-> obj["category"],
      Hierarchy   |-> obj["hierarchy"],
      IsIndex     |-> obj["is_index"] ]

\* no document written yet
NoDocument == [none |-> TRUE]

\* WriteJSON: the document holds versions, latest and sections only
WriteJSON(idx) ==
    [ malformed |-> FALSE,
      versions  |-> idx.Versions,
      latest    |-> idx.Latest,
      sections  |-> [ v \in DOMAIN idx.Sections |->
                        [ i \in 1..Len(idx.Sections[v]) |-> MarshalSection(idx.Sections[v][i]) ] ] ]

\* a variant of LoadJSON that hands out the zero index when decoding fails
LoadJSONLenient(data) ==
    IF data.malformed
    THEN [ err   |-> "",
           index |-> [ Versions |-> <<>>, Latest |-> EmptyStr, Sections |-> EmptyMap,
                       BySlug |-> EmptyMap, ByPath |-> EmptyMap ] ]
    ELSE [ err   |-> "",
           index |-> buildRuntimeIndexes(
                       [ Versions |-> data.versions,
                         Latest   |-> data.latest,
                         Sections |-> [ v \in DOMAIN data.sections |->
                                          [ i \in 1..Len(data.sections[v]) |->
                                              UnmarshalSection(data.sections[v][i]) ] ],
                         BySlug   |-> EmptyMap,
                         ByPath   |-> EmptyMap ]) ]

\* LoadJSON: decode, then rebuild both runtime maps from the decoded lists
LoadJSON(data) ==
    IF data.malformed THEN [err |-> "failed to unmarshal index", index |-> NilIndex]
    ELSE [ err   |-> "",
           index |-> buildRuntimeIndexes(
                       [ Versions |-> data.versions,
                         Latest   |-> data.latest,
                         Sections |-> [ v \in DOMAIN data.sections |->
                                          [ i \in 1..Len(data.sections[v]) |->
                                              UnmarshalSection(data.sections[v][i]) ] ],
                         BySlug   |-> EmptyMap,
                         ByPath   |-> EmptyMap ]) ]

(***************************************************************************)
(* The SectionIndex accessors and the Finder.                              *)
(***************************************************************************)
\* a variant of HasVersion that looks the version up in the Versions list
HasVersionListed(idx, version) == \E i \in 1..Len(idx.Versions) : idx.Versions[i] = version

HasVersion(idx, version) == version \in DOMAIN idx.Sections

GetVersion(idx, version) == IF version \in DOMAIN idx.Sections THEN idx.Sections[version] ELSE <<>>

GetLatestVersion(idx) == idx.Latest

ListVersions(idx) == idx.Versions

\* Finder.GetVersions
GetVersions(idx) == ListVersions(idx)

\* a variant of resolveVersion that leaves the empty version as it is
resolveVersionAsGiven(idx, version) == version

resolveVersion(idx, version) == IF version = EmptyStr THEN GetLatestVersion(idx) ELSE version

\* a nil *Section
NilSection == [nil |-> TRUE]

GetAll(idx, version) ==
    LET v == resolveVersion(idx, version)
    IN  IF ~HasVersion(idx, v) THEN [err |-> "version not found", sections |-> <<>>]
        ELSE [err |-> "", sections |-> GetVersion(idx, v)]

\* GetBySlug returns a pointer into the version's section list: ref is its
\* position there and section the value it points to
GetBySlug(idx, slug, version) ==
    LET v == resolveVersion(idx, version)
    IN  IF ~HasVersion(idx, v)
        THEN [err |-> "version not found", ref |-> 0, section |-> NilSection]
        ELSE IF v \notin DOMAIN idx.BySlug
        THEN [err |-> "no slug index for version", ref |-> 0, section |-> NilSection]
        ELSE IF slug \notin DOMAIN idx.BySlug[v]
        THEN [err |-> "section not found", ref |-> 0, section |-> NilSection]
        ELSE [err |-> "", ref |-> idx.BySlug[v][slug],
              section |-> idx.Sections[v][idx.BySlug[v][slug]]]

GetByCategory(idx, category, version) ==
    LET v == resolveVersion(idx, version)
    IN  IF ~HasVersion(idx, v) THEN [err |-> "version not found", sections |-> <<>>]
        ELSE [err |-> "",
              sections |-> SelectSeq(GetVersion(idx, v), LAMBDA sec : sec.Category = category)]

\* strings.ToLower on ASCII: 'A'..'Z' become 'a'..'z'
ToLower(s) == [i \in 1..Len(s) |-> IF s[i] >= 65 /\ s[i] <= 90 THEN s[i] + 32 ELSE s[i]]

\* strings.Contains(s, substr): the empty substr is contained in every s
Contains(s, substr) ==
    \E i \in 0..(Len(s) - Len(substr)) : SubSeq(s, i + 1, i + Len(substr)) = substr

\* a variant of Search that does not lower-case the query
SearchQueryAsGiven(idx, query, version) ==
    LET v == resolveVersion(idx, version)
    IN  IF ~HasVersion(idx, v) THEN [err |-> "version not found", sections |-> <<>>]
        ELSE [err |-> "",
              sections |-> SelectSeq(GetVersion(idx, v),
                              LAMBDA sec : \/ Contains(ToLower(sec.Title), query)
                                           \/ Contains(ToLower(sec.Description), query)
                                           \/ Contains(ToLower(sec.Slug), query))]

Search(idx, query, version) ==
    LET v == resolveVersion(idx, version)
        q == ToLower(query)
    IN  IF ~HasVersion(idx, v) THEN [err |-> "version not found", sections |-> <<>>]
        ELSE [err |-> "",
              sections |-> SelectSeq(GetVersion(idx, v),
                              LAMBDA sec : \/ Contains(ToLower(sec.Title), q)
                                           \/ Contains(ToLower(sec.Description), q)
                                           \/ Contains(ToLower(sec.Slug), q))]

\* a variant of the loop of GetCategories without the seen map
RECURSIVE CategoriesUpToUnseen(_, _)
CategoriesUpToUnseen(allSections, n) ==
    IF n = 0 THEN <<>>
    ELSE LET categories == CategoriesUpToUnseen(allSections, n - 1)
             category   == allSections[n].Category
         IN  IF category # EmptyStr THEN Append(categories, category) ELSE categories

\* the loop of GetCategories over the first n sections: a category is
\* appended when it is non-empty and not yet seen
RECURSIVE CategoriesUpTo(_, _)
CategoriesUpTo(allSections, n) ==
    IF n = 0 THEN <<>>
    ELSE LET categories == CategoriesUpTo(allSections, n - 1)
             category   == allSections[n].Category
         IN  IF category # EmptyStr /\ category \notin Range(categories)
             THEN Append(categories, category)
             ELSE categories

GetCategories(idx, version) ==
    LET v == resolveVersion(idx, version)
    IN  IF ~HasVersion(idx, v) THEN [err |-> "version not found", categories |-> <<>>]
        ELSE [err |-> "",
              categories |-> CategoriesUpTo(GetVersion(idx, v), Len(GetVersion(idx, v)))]

\* a variant of MatchVersion without the major.minor ".x" match
MatchVersionExactOnly(idx, userVersion) ==
    IF userVersion = EmptyStr THEN [version |-> GetLatestVersion(idx), err |-> ""]
    ELSE IF HasVersion(idx, userVersion) THEN [version |-> userVersion, err |-> ""]
    ELSE [version |-> GetLatestVersion(idx), err |-> "no exact match for version"]

\* MatchVersion: the empty string, a direct match, the major.minor ".x"
\* match, and the fallback to latest with an error
MatchVersion(idx, userVersion) ==
    IF userVersion = EmptyStr THEN [version |-> GetLatestVersion(idx), err |-> ""]
    ELSE IF HasVersion(idx, userVersion) THEN [version |-> userVersion, err |-> ""]
    ELSE LET parts      == Split(userVersion, Dot)
             majorMinor == IF Len(parts) >= 2
                           THEN parts[1] \o Dot \o parts[2] \o Dot \o StrX
                           ELSE EmptyStr
         IN  IF Len(parts) >= 2 /\ HasVersion(idx, majorMinor)
             THEN [version |-> majorMinor, err |-> ""]
             ELSE [version |-> GetLatestVersion(idx), err |-> "no exact match for version"]

(***************************************************************************)
(* parser.go: the recovery pass over a frontmatter block with re-declared  *)
(* keys, and the outcomes of yaml.Unmarshal on the blocks of the model.    *)
(***************************************************************************)
NL == <<10>>

Colon == <<58>>

\* the bytes strings.TrimSpace removes: tab, newline, carriage return, space
IsSpace(c) == c \in {9, 10, 11, 12, 13, 32}

\* strings.TrimSpace
TrimSpace(s) ==
    LET keep == {i \in 1..Len(s) : ~IsSpace(s[i])}
    IN  IF keep = {} THEN EmptyStr
        ELSE SubSeq(s, CHOOSE i \in keep : \A j \in keep : i <= j,
                       CHOOSE i \in keep : \A j \in keep : j <= i)

\* strings.SplitN(s, sep, 2) for a one-byte sep: cut at the first sep
SplitN2(s, sep) ==
    LET hits == {i \in 1..Len(s) : s[i] = sep[1]}
    IN  IF hits = {} THEN <<s>>
        ELSE LET i == CHOOSE h \in hits : \A j \in hits : h <= j
             IN  <<SubSeq(s, 1, i - 1), SubSeq(s, i + 1, Len(s))>>

\* strings.ContainsAny(s, " \t")
ContainsBlank(s) == \E i \in 1..Len(s) : s[i] \in {32, 9}

NoKey == [key |-> EmptyStr, ok |-> FALSE]

\* topLevelKey(line): the key a line declares at the top level, if any
topLevelKey(line) ==
    IF line = EmptyStr THEN NoKey
    ELSE IF HasPrefix(line, <<32>>) \/ HasPrefix(line, <<9>>) THEN NoKey
    ELSE LET trimmed == TrimSpace(line)
         IN  IF trimmed = EmptyStr \/ HasPrefix(trimmed, <<35>>) \/ HasPrefix(trimmed, <<45>>)
             THEN NoKey
             ELSE LET parts == SplitN2(trimmed, Colon)
                  IN  IF Len(parts) # 2 THEN NoKey
                      ELSE LET key == TrimSpace(parts[1])
                           IN  IF key = EmptyStr \/ ContainsBlank(key) THEN NoKey
                               ELSE [key |-> key, ok |-> TRUE]

\* the positions of the lines that declare a top-level key, in order
KeyLines(lines) ==
    SelectSeq([i \in 1..Len(lines) |-> i], LAMBDA i : topLevelKey(lines[i]).ok)

\* the blocks of dedupeFrontmatter: the lines before the first key line (key
\* ""), then one block per key line, up to the line before the next key line
Blocks(lines) ==
    LET keyLines == KeyLines(lines)
        preamble == IF keyLines[1] > 1
                    THEN <<[key |-> EmptyStr, start |-> 1, end |-> keyLines[1] - 1]>>
                    ELSE <<>>
    IN  preamble \o
        [ i \in 1..Len(keyLines) |->
            [ key   |-> topLevelKey(lines[keyLines[i]]).key,
              start |-> keyLines[i],
              end   |-> IF i + 1 <= Len(keyLines) THEN keyLines[i + 1] - 1 ELSE Len(lines) ] ]

\* a variant of OutputUpTo that keeps the first block of a key and skips the
\* later ones
RECURSIVE OutputUpToKeepFirst(_, _, _)
OutputUpToKeepFirst(lines, blocks, n) ==
    IF n = 0 THEN <<>>
    ELSE LET block      == blocks[n]
             firstBlock == CHOOSE i \in 1..Len(blocks) :
                              /\ blocks[i].key = block.key
                              /\ \A j \in 1..Len(blocks) : blocks[j].key = block.key => i <= j
         IN  IF block.key # EmptyStr /\ firstBlock # n
             THEN OutputUpToKeepFirst(lines, blocks, n - 1)
             ELSE OutputUpToKeepFirst(lines, blocks, n - 1)
                  \o SubSeq(lines, block.start, block.end)

\* the output lines of dedupeFrontmatter after the first n blocks: a block
\* is skipped when a later block has its key
RECURSIVE OutputUpTo(_, _, _)
OutputUpTo(lines, blocks, n) ==
    IF n = 0 THEN <<>>
    ELSE LET block     == blocks[n]
             lastBlock == CHOOSE i \in 1..Len(blocks) :
                             /\ blocks[i].key = block.key
                             /\ \A j \in 1..Len(blocks) : blocks[j].key = block.key => j <= i
         IN  IF block.key # EmptyStr /\ lastBlock # n
             THEN OutputUpTo(lines, blocks, n - 1)
             ELSE OutputUpTo(lines, blocks, n - 1) \o SubSeq(lines, block.start, block.end)

dedupeFrontmatter(raw) ==
    LET lines == Split(raw, NL)
    IN  IF KeyLines(lines) = <<>> THEN raw
        ELSE Join(OutputUpTo(lines, Blocks(lines), Len(Blocks(lines))), NL)

\* the error texts of yaml.v3 that the blocks of the model produce: a
\* re-declared key, a '?' where no key may start, a weight that is no number
MsgAlreadyDefined(key) ==
    <<109, 97, 112, 112, 105, 110, 103, 32, 107, 101, 121, 32, 34>> \o key \o <<34, 32, 97, 108, 114, 101, 97, 100, 121, 32, 100, 101, 102, 105, 110, 101, 100>>

MsgKeysNotAllowed == <<109, 97, 112, 112, 105, 110, 103, 32, 107, 101, 121, 115, 32, 97, 114, 101, 32, 110, 111, 116, 32, 97, 108, 108, 111, 119, 101, 100, 32, 105, 110, 32, 116, 104, 105, 115, 32, 99, 111, 110, 116, 101, 120, 116>>

MsgCannotUnmarshal == <<99, 97, 110, 110, 111, 116, 32, 117, 110, 109, 97, 114, 115, 104, 97, 108, 32, 33, 33, 115, 116, 114, 32, 105, 110, 116, 111, 32, 105, 110, 116>>

\* "mapping key": what ParseFrontmatter looks for in the error text
MappingKey == <<109, 97, 112, 112, 105, 110, 103, 32, 107, 101, 121>>

\* the keys of the Frontmatter struct that the blocks of the model use
KeyTitle == <<116, 105, 116, 108, 101>>

KeyWeight == <<119, 101, 105, 103, 104, 116>>

KeyAliases == <<97, 108, 105, 97, 115, 101, 115>>

\* a YAML key or scalar without its double quotes
Unquote(s) ==
    IF Len(s) >= 2 /\ s[1] = 34 /\ s[Len(s)] = 34 THEN SubSeq(s, 2, Len(s) - 1) ELSE s

\* the top-level entries of a block, as YAML reads them: the lines that are
\* neither blank, nor comments, nor indented
YamlEntries(lines) ==
    SelectSeq([i \in 1..Len(lines) |-> i],
              LAMBDA i : /\ TrimSpace(lines[i]) # EmptyStr
                         /\ lines[i][1] \notin {32, 9, 35})

YamlKey(line) == Unquote(TrimSpace(SplitN2(line, Colon)[1]))

YamlValue(line) == Unquote(TrimSpace(SplitN2(line, Colon)[2]))

\* the items "  - item" that follow line i up to the next top-level entry
RECURSIVE YamlItems(_, _)
YamlItems(lines, i) ==
    IF i > Len(lines) \/ ~HasPrefix(lines[i], <<32, 32, 45, 32>>) THEN <<>>
    ELSE <<SubSeq(lines[i], 5, Len(lines[i]))>> \o YamlItems(lines, i + 1)

ZeroFrontmatter ==
    [Title |-> EmptyStr, Description |-> EmptyStr, Weight |-> 0, Aliases |-> <<>>]

\* yaml.Unmarshal into a Frontmatter, for a block made of top-level
\* "key: value" lines, comments and indented list items. The text is
\* scanned first (a '?' after a quoted scalar is an error of the scanner),
\* then the keys of the mapping are checked to be distinct, then the fields
\* are decoded. kind names the reason of a failure.
yamlUnmarshal(text) ==
    LET lines   == Split(text, NL)
        entries == YamlEntries(lines)
        Value(k) == LET at == CHOOSE n \in 1..Len(entries) : YamlKey(lines[entries[n]]) = k
                    IN  YamlValue(lines[entries[at]])
        Has(k)  == \E n \in 1..Len(entries) : YamlKey(lines[entries[n]]) = k
        Items(k) == LET at == CHOOSE n \in 1..Len(entries) : YamlKey(lines[entries[n]]) = k
                    IN  YamlItems(lines, entries[at] + 1)
    IN  IF \E n \in 1..Len(entries) : Contains(lines[entries[n]], <<34, 32, 63, 32>>)
        THEN [kind |-> "scanner", msg |-> MsgKeysNotAllowed, fm |-> ZeroFrontmatter]
        ELSE IF \E n, m \in 1..Len(entries) :
                    n # m /\ YamlKey(lines[entries[n]]) = YamlKey(lines[entries[m]])
        THEN [ kind |-> "duplicate key",
               msg  |-> MsgAlreadyDefined(
                           YamlKey(lines[entries[
                               CHOOSE n \in 1..Len(entries) :
                                   \E m \in 1..Len(entries) :
                                       m # n /\ YamlKey(lines[entries[m]])
                                                  = YamlKey(lines[entries[n]])]])),
               fm   |-> ZeroFrontmatter ]
        ELSE IF Has(KeyWeight) /\ (Len(Value(KeyWeight)) # 1 \/ Value(KeyWeight)[1] \notin 48..57)
        THEN [kind |-> "type", msg |-> MsgCannotUnmarshal, fm |-> ZeroFrontmatter]
        ELSE [ kind |-> "ok", msg |-> EmptyStr,
               fm |-> [ Title       |-> IF Has(KeyTitle) THEN Value(KeyTitle) ELSE EmptyStr,
                        Description |-> EmptyStr,
                        Weight      |-> IF Has(KeyWeight) THEN Value(KeyWeight)[1] - 48 ELSE 0,
                        Aliases     |-> IF Has(KeyAliases) THEN Items(KeyAliases) ELSE <<>> ] ]

FrontmatterError ==
    [err |-> TRUE, Title |-> EmptyStr, Description |-> EmptyStr, Weight |-> 0, Aliases |-> <<>>]

FrontmatterOf(fm) ==
    [err |-> FALSE, Title |-> fm.Title, Description |-> fm.Description,
     Weight |-> fm.Weight, Aliases |-> fm.Aliases]

\* ParseFrontmatter from the joined lines of the block on: the first parse,
\* the test of the error text, the recovery pass and the second parse
parseRawFrontmatter(rawFrontmatter) ==
    LET first == yamlUnmarshal(rawFrontmatter)
    IN  IF first.msg = EmptyStr THEN FrontmatterOf(first.fm)
        ELSE IF ~Contains(first.msg, MappingKey) THEN FrontmatterError
        ELSE LET sanitized == dedupeFrontmatter(rawFrontmatter)
             IN  IF sanitized = rawFrontmatter THEN FrontmatterError
                 ELSE LET second == yamlUnmarshal(sanitized)
                      IN  IF second.msg # EmptyStr THEN FrontmatterError
                          ELSE FrontmatterOf(second.fm)

(***************************************************************************)
(* tree.go: the depth-limited tree builder.                                *)
(***************************************************************************)
\* a variant of parentSlug that cuts at the first '/' instead of the last
parentSlugFirstSlash(slug) ==
    LET cuts == {i \in 1..Len(slug) : slug[i] = Slash[1]}
    IN  IF cuts = {} THEN EmptyStr
        ELSE SubSeq(slug, 1, (CHOOSE i \in cuts : \A j \in cuts : i <= j) - 1)

parentSlug(slug) ==
    LET idx == LastIndex(slug, Slash)
    IN  IF idx = -1 THEN EmptyStr ELSE SubSeq(slug, 1, idx)

\* childrenByParent: every section appended, in list order, under the key
\* parentSlug(section.Slug)
ChildrenByParent(sections) ==
    [ p \in {parentSlug(sections[i].Slug) : i \in 1..Len(sections)} |->
        SelectSeq(sections, LAMBDA sec : parentSlug(sec.Slug) = p) ]

\* reading a Go map: the zero value (a nil slice) for an absent key
ChildrenOf(childrenByParent, slug) ==
    IF slug \in DOMAIN childrenByParent THEN childrenByParent[slug] ELSE <<>>

\* a variant of buildSectionNode that still expands the children of a node
\* at the last permitted level
RECURSIVE buildSectionNodeOneDeeper(_, _, _, _)
buildSectionNodeOneDeeper(section, childrenByParent, maxDepth, currentDepth) ==
    LET childSections == ChildrenOf(childrenByParent, section.Slug)
    IN  [ Section         |-> section,
          ChildCount      |-> Len(childSections),
          HasChildren     |-> Len(childSections) > 0,
          Children        |-> IF Len(childSections) > 0 /\ currentDepth <= maxDepth
                              THEN [ i \in 1..Len(childSections) |->
                                       buildSectionNodeOneDeeper(childSections[i],
                                           childrenByParent, maxDepth, currentDepth + 1) ]
                              ELSE <<>>,
          HasMoreChildren |-> Len(childSections) > 0 /\ currentDepth > maxDepth ]

RECURSIVE buildSectionNode(_, _, _, _)
buildSectionNode(section, childrenByParent, maxDepth, currentDepth) ==
    LET childSections == ChildrenOf(childrenByParent, section.Slug)
    IN  [ Section         |-> section,
          ChildCount      |-> Len(childSections),
          HasChildren     |-> Len(childSections) > 0,
          Children        |-> IF Len(childSections) > 0 /\ currentDepth < maxDepth
                              THEN [ i \in 1..Len(childSections) |->
                                       buildSectionNode(childSections[i], childrenByParent,
                                                        maxDepth, currentDepth + 1) ]
                              ELSE <<>>,
          HasMoreChildren |-> Len(childSections) > 0 /\ currentDepth >= maxDepth ]

\* a variant of BuildSectionTree that clamps a depth below 1 to 1
BuildSectionTreeClamped(sections, rootSlug, depth) ==
    LET d                == IF depth < 1 THEN 1 ELSE depth
        slugToSection    == {sections[i].Slug : i \in 1..Len(sections)}
        childrenByParent == ChildrenByParent(sections)
    IN  IF rootSlug # EmptyStr /\ rootSlug \notin slugToSection
        THEN [err |-> "root slug not found", nodes |-> <<>>]
        ELSE LET roots == ChildrenOf(childrenByParent, rootSlug)
             IN  [ err   |-> "",
                   nodes |-> [ i \in 1..Len(roots) |->
                                 buildSectionNode(roots[i], childrenByParent, d, 1) ] ]

\* a variant of BuildSectionTree that starts the top-level tree at every
\* section whose parent slug is the slug of no section
BuildSectionTreeOrphanRoots(sections, rootSlug, depth) ==
    IF depth < 1 THEN [err |-> "depth must be at least 1", nodes |-> <<>>]
    ELSE LET slugToSection    == {sections[i].Slug : i \in 1..Len(sections)}
             childrenByParent == ChildrenByParent(sections)
         IN  IF rootSlug # EmptyStr /\ rootSlug \notin slugToSection
             THEN [err |-> "root slug not found", nodes |-> <<>>]
             ELSE LET roots == IF rootSlug = EmptyStr
                               THEN SelectSeq(sections,
                                        LAMBDA sec : parentSlug(sec.Slug) \notin slugToSection)
                               ELSE ChildrenOf(childrenByParent, rootSlug)
                  IN  [ err   |-> "",
                        nodes |-> [ i \in 1..Len(roots) |->
                                      buildSectionNode(roots[i], childrenByParent, depth, 1) ] ]

BuildSectionTree(sections, rootSlug, depth) ==
    IF depth < 1 THEN [err |-> "depth must be at least 1", nodes |-> <<>>]
    ELSE LET slugToSection    == {sections[i].Slug : i \in 1..Len(sections)}
             childrenByParent == ChildrenByParent(sections)
         IN  IF rootSlug # EmptyStr /\ rootSlug \notin slugToSection
             THEN [err |-> "root slug not found", nodes |-> <<>>]
             ELSE LET roots == ChildrenOf(childrenByParent, rootSlug)
                  IN  [ err   |-> "",
                        nodes |-> [ i \in 1..Len(roots) |->
                                      buildSectionNode(roots[i], childrenByParent, depth, 1) ] ]

\* toDTO: the lean form of a node and, recursively, of its children
RECURSIVE toDTO(_)
toDTO(n) ==
    [ Slug        |-> n.Section.Slug,
      Title       |-> n.Section.Title,
      Description |-> n.Section.Description,
      ChildCount  |-> n.ChildCount,
      HasMore     |-> n.HasMoreChildren,
      Children    |-> [i \in 1..Len(n.Children) |-> toDTO(n.Children[i])] ]

NodesToDTO(nodes) == [i \in 1..Len(nodes) |-> toDTO(nodes[i])]

(***************************************************************************)
(* tools: the list_sections and get_documentation handlers.                *)
(***************************************************************************)
\* resolveVersion of package tools: the latest version for the empty one, a
\* version of the Versions list as it is, an error for any other
ToolResolveVersion(idx, version) ==
    IF version = EmptyStr THEN [version |-> GetLatestVersion(idx), err |-> ""]
    ELSE IF \E i \in 1..Len(idx.Versions) : idx.Versions[i] = version
    THEN [version |-> version, err |-> ""]
    ELSE [version |-> EmptyStr, err |-> "version not found"]

\* "all": the version parameter that asks for the list of versions
VersionAll == <<97, 108, 108>>

defaultTreeDepth == 1

maxTreeDepth == 5

\* a variant of parseListSectionsParams without the upper limit
parseListSectionsParamsNoMax(request) ==
    LET depth == IF request.hasDepth THEN request.depth ELSE defaultTreeDepth
    IN  [ Version  |-> request.version,
          Category |-> request.category,
          RootSlug |-> request.root_slug,
          Depth    |-> IF depth < 1 THEN defaultTreeDepth ELSE depth ]

\* parseListSectionsParams: a missing depth is the default; a depth below 1
\* becomes the default, a depth above the maximum becomes the maximum
parseListSectionsParams(request) ==
    LET depth == IF request.hasDepth THEN request.depth ELSE defaultTreeDepth
    IN  [ Version  |-> request.version,
          Category |-> request.category,
          RootSlug |-> request.root_slug,
          Depth    |-> IF depth < 1 THEN defaultTreeDepth
                       ELSE IF depth > maxTreeDepth THEN maxTreeDepth
                       ELSE depth ]

\* fetchSections: the sections of the category when one is given, all the
\* sections of the version otherwise
fetchSections(idx, params, version) ==
    IF params.Category # EmptyStr
    THEN LET r == GetByCategory(idx, params.Category, version)
         IN  IF r.err # "" THEN [err |-> "category filter failed", list |-> <<>>, total |-> 0]
             ELSE [err |-> "", list |-> r.sections, total |-> Len(r.sections)]
    ELSE LET r == GetAll(idx, version)
         IN  IF r.err # "" THEN [err |-> "failed to get sections", list |-> <<>>, total |-> 0]
             ELSE [err |-> "", list |-> r.sections, total |-> Len(r.sections)]

\* a tool result that carries an error text
ToolResultError(text) == [isError |-> TRUE, err |-> text]

\* buildListSectionsResponse; builtWith records the depth that was handed to
\* BuildSectionTree
buildListSectionsResponse(idx, params, version, sectionList, totalCount) ==
    LET tree == BuildSectionTree(sectionList, params.RootSlug, params.Depth)
    IN  IF tree.err # ""
        THEN [ isError |-> TRUE, err |-> "failed to build section tree", cause |-> tree.err,
               builtWith |-> params.Depth ]
        ELSE [ isError           |-> FALSE,
               err               |-> "",
               builtWith         |-> params.Depth,
               Tree              |-> NodesToDTO(tree.nodes),
               Count             |-> Len(tree.nodes),
               Total             |-> totalCount,
               Version           |-> version,
               AvailableVersions |-> GetVersions(idx),
               Depth             |-> params.Depth,
               RootSlug          |-> params.RootSlug ]

\* handleVersionsRequest
handleVersionsRequest(idx) ==
    [isError |-> FALSE, err |-> "", Versions |-> GetVersions(idx), Latest |-> GetLatestVersion(idx)]

\* the list_sections handler from the resolved version on
ListSectionsFrom(idx, params, resolved) ==
    IF resolved.err # "" THEN ToolResultError(resolved.err)
    ELSE LET fetched == fetchSections(idx, params, resolved.version)
         IN  IF fetched.err # "" THEN ToolResultError(fetched.err)
             ELSE buildListSectionsResponse(idx, params, resolved.version,
                                            fetched.list, fetched.total)

\* the list_sections handler
ListSections(idx, request) ==
    LET params == parseListSectionsParams(request)
    IN  IF params.Version = VersionAll THEN handleVersionsRequest(idx)
        ELSE ListSectionsFrom(idx, params, ToolResolveVersion(idx, params.Version))

\* "dist/markdown"
MarkdownRoot == <<100, 105, 115, 116, 47, 109, 97, 114, 107, 100, 111, 119, 110>>

\* filepath.Join of clean elements: empty elements are ignored
JoinNonEmpty(elems) == Join(SelectSeq(elems, LAMBDA e : e # EmptyStr), Sep)

\* the embedded markdown files: the prepare step copies the files of every
\* version to dist/markdown/{version}
MarkdownFilesOf(idx) ==
    UNION { { JoinNonEmpty(<<MarkdownRoot, v, idx.Sections[v][i].RelPath>>) :
                i \in 1..Len(idx.Sections[v]) } :
            v \in DOMAIN idx.Sections }

\* readMarkdownContent: the file dist/markdown/{version}/{relPath} of the
\* embedded files
readMarkdownContent(files, section, version) ==
    LET markdownPath == JoinNonEmpty(<<MarkdownRoot, version, section.RelPath>>)
    IN  IF markdownPath \notin files
        THEN [err |-> "failed to read documentation content", content |-> EmptyStr]
        ELSE [err |-> "", content |-> markdownPath]

\* the get_documentation handler from the resolved version on; the error of
\* resolveVersion is dropped by the handler. lookedUpIn records the version
\* in which the Finder looked the slug up.
GetDocumentationFrom(idx, files, params, resolved) ==
    LET version == resolved.version
        found   == GetBySlug(idx, params.Slug, version)
    IN  IF found.err # ""
        THEN [ isError |-> TRUE, err |-> "section not found",
               lookedUpIn |-> resolveVersion(idx, version) ]
        ELSE LET read == readMarkdownContent(files, found.section, version)
             IN  IF read.err # ""
                 THEN [ isError |-> TRUE, err |-> read.err,
                        lookedUpIn |-> resolveVersion(idx, version) ]
                 ELSE [ isError           |-> FALSE,
                        err               |-> "",
                        lookedUpIn        |-> resolveVersion(idx, version),
                        Section           |-> found.section,
                        Content           |-> read.content,
                        Version           |-> version,
                        AvailableVersions |-> GetVersions(idx) ]

\* the get_documentation handler: the slug parameter is required
GetDocumentation(idx, files, request) ==
    IF ~request.hasSlug THEN ToolResultError("missing or invalid slug parameter")
    ELSE GetDocumentationFrom(idx, files,
                              [Slug |-> request.slug, Version |-> request.version],
                              ToolResolveVersion(idx, request.version))

(***************************************************************************)
(* The state machine: the corpus is indexed once (cmd/prepare), the index  *)
(* is written, the server loads it and then answers queries.               *)
(***************************************************************************)
VARIABLES
    corpus,     \* the markdown files under the docs root
    built,      \* the result of the index build: [err, index]
    document,   \* the JSON document written from the built index
    loaded,     \* the result of LoadJSON at server start: [err, index]
    given,      \* an input handed directly to a function: a section list, a frontmatter
                \* block, a markdown file
    out,        \* the last query and its result
    server,     \* the server process: where run is, its exit status, its tools
    calls       \* the request each concurrent caller has in progress

vars == <<corpus, built, document, loaded, given, out, server, calls>>

NotRun == [err |-> "not run", index |-> NilIndex]

NoOutput == [op |-> "none"]

\* the server process before run has loaded the index
NotStarted == [pc |-> "start", status |-> 0, tools |-> {}]

\* the goroutines that handle requests at the same time
Callers == 1..MaxCallers

\* a caller with no request in progress
Idle == [pc |-> "idle"]

NoCalls == [c \in Callers |-> Idle]

\* the tools run registers
ToolNames == {"RegisterInfoTool", "RegisterValidateTool", "RegisterRunTool",
              "RegisterSearchTerraformTool", "RegisterListSectionsTool",
              "RegisterGetDocumentationTool"}

\* the arguments of the requests
QueryVersions == {EmptyStr, V14, V13, V09}

QuerySlugs == {StrA, StrA \o Slash \o StrB, StrX, EmptyStr}

QueryCategories == {StrA, EmptyStr}

\* search terms: "a", "B", "zz" and the empty term
QueryTerms == {StrA, TitleB, StrZZ, EmptyStr}

\* versions a user names: "", "v1.4.x", "v1.4.0", "v1.3", "v1", "v0.9.1"
UserVersions ==
    { EmptyStr, V14,
      <<118, 49, 46, 52, 46, 48>>,
      <<118, 49, 46, 51>>,
      <<118, 49>>,
      <<118, 48, 46, 57, 46, 49>> }

\* version lists handed to the indexer
VersionLists ==
    { q \in SeqsUpTo({V14, V13, V09}, 2) : \A i, j \in 1..Len(q) : i # j => q[i] # q[j] }

Init ==
    /\ corpus \in Corpora
    /\ built = NotRun
    /\ document = NoDocument
    /\ loaded = NotRun
    /\ given = <<>>
    /\ out = NoOutput
    /\ server = NotStarted
    /\ calls = NoCalls

BuildMulti ==
    /\ built = NotRun
    /\ \E versions \in VersionLists :
         \E r \in BuildMultiVersionIndex(corpus, DocsRoot, versions) :
            built' = [err |-> r.err, index |-> r.index,
                      op |-> "BuildMultiVersionIndex", versions |-> versions]
    /\ UNCHANGED <<corpus, document, loaded, given, out, server, calls>>

BuildSingle ==
    /\ built = NotRun
    /\ \E version \in VersionDirs \cup {V09} :
         \E r \in BuildSectionIndex(corpus, DocsRoot, version) :
            built' = [err |-> r.err, index |-> r.index,
                      op |-> "BuildSectionIndex", versions |-> <<version>>]
    /\ UNCHANGED <<corpus, document, loaded, given, out, server, calls>>

Write ==
    /\ built.err = ""
    /\ document = NoDocument
    /\ document' = WriteJSON(built.index)
    /\ UNCHANGED <<corpus, built, loaded, given, out, server, calls>>

\* run, up to the load of the embedded index: a load error is reported and
\* run returns 1 before the server is created
Load ==
    /\ document # NoDocument
    /\ loaded = NotRun
    /\ server = NotStarted
    /\ calls = NoCalls
    /\ loaded' = LoadJSON(document)
    /\ server' = IF loaded'.err # ""
                 THEN [pc |-> "returned", status |-> 1, tools |-> {}]
                 ELSE [pc |-> "loaded", status |-> 0, tools |-> {}]
    /\ UNCHANGED <<corpus, built, document, given, out, calls>>

\* run, after a successful load: the Finder is created, the tools are
\* registered and the server starts to handle requests
RegisterTools ==
    /\ server.pc = "loaded"
    /\ server' = [server EXCEPT !.pc = "serving", !.tools = ToolNames]
    /\ UNCHANGED <<corpus, built, document, loaded, given, out, calls>>

\* the server answers one request at a time from the idle state
Serving == server.pc = "serving" /\ out = NoOutput

QueryGetAll ==
    /\ Serving
    /\ \E version \in QueryVersions :
         out' = [op |-> "GetAll", version |-> version, res |-> GetAll(loaded.index, version)]
    /\ UNCHANGED <<corpus, built, document, loaded, given, server, calls>>

QueryGetBySlug ==
    /\ Serving
    /\ \E slug \in QuerySlugs, version \in QueryVersions :
         out' = [op |-> "GetBySlug", slug |-> slug, version |-> version,
                 res |-> GetBySlug(loaded.index, slug, version)]
    /\ UNCHANGED <<corpus, built, document, loaded, given, server, calls>>

QueryGetByCategory ==
    /\ Serving
    /\ \E category \in QueryCategories, version \in QueryVersions :
         out' = [op |-> "GetByCategory", category |-> category, version |-> version,
                 res |-> GetByCategory(loaded.index, category, version)]
    /\ UNCHANGED <<corpus, built, document, loaded, given, server, calls>>

\* the tree of a version's sections, as the list_sections tool builds it
QueryTree ==
    /\ Serving
    /\ \E version \in QueryVersions, rootSlug \in {EmptyStr, StrA}, depth \in 1..MaxDepth :
         /\ GetAll(loaded.index, version).err = ""
         /\ out' = [op |-> "BuildSectionTree", version |-> version, rootSlug |-> rootSlug,
                    depth |-> depth,
                    res |-> BuildSectionTree(GetAll(loaded.index, version).sections,
                                             rootSlug, depth)]
    /\ UNCHANGED <<corpus, built, document, loaded, given, server, calls>>

QuerySearch ==
    /\ Serving
    /\ \E query \in QueryTerms, version \in QueryVersions :
         out' = [op |-> "Search", query |-> query, version |-> version,
                 res |-> Search(loaded.index, query, version)]
    /\ UNCHANGED <<corpus, built, document, loaded, given, server, calls>>

QueryGetCategories ==
    /\ Serving
    /\ \E version \in QueryVersions :
         out' = [op |-> "GetCategories", version |-> version,
                 res |-> GetCategories(loaded.index, version)]
    /\ UNCHANGED <<corpus, built, document, loaded, given, server, calls>>

QueryMatchVersion ==
    /\ Serving
    /\ \E userVersion \in UserVersions :
         out' = [op |-> "MatchVersion", userVersion |-> userVersion,
                 res |-> MatchVersion(loaded.index, userVersion)]
    /\ UNCHANGED <<corpus, built, document, loaded, given, server, calls>>

\* the handler returns: the request-scoped result is discarded
Reply ==
    /\ out # NoOutput
    /\ out' = NoOutput
    /\ UNCHANGED <<corpus, built, document, loaded, given, server, calls>>

Next ==
    \/ BuildMulti
    \/ BuildSingle
    \/ Write
    \/ Load
    \/ RegisterTools
    \/ QueryGetAll
    \/ QueryGetBySlug
    \/ QueryGetByCategory
    \/ QueryTree
    \/ QuerySearch
    \/ QueryGetCategories
    \/ QueryMatchVersion
    \/ Reply

Spec == Init /\ [][Next]_vars

(***************************************************************************)
(* The server on its own: run loads whatever document is embedded in the   *)
(* binary, well-formed or not, then registers its tools and serves.        *)
(***************************************************************************)
\* a section object of a document
DocSection(slug, title, description, category, aliases) ==
    MarshalSection(
        [ Slug |-> slug, Path |-> EmptyStr, RelPath |-> slug \o MdExt, Title |-> title,
          Description |-> description, Weight |-> 0, Aliases |-> aliases,
          Category |-> category,
          Hierarchy |-> IF category = EmptyStr THEN <<>> ELSE <<category>>,
          IsIndex |-> FALSE ])

\* the section objects documents are made of: "a", "a/b" (alias "/x"),
\* "b/a", "b" (description "ZZ") and "a/x"
DocSections ==
    { DocSection(StrA, TitleA, EmptyStr, EmptyStr, <<>>),
      DocSection(StrA \o Slash \o StrB, TitleA, EmptyStr, StrA, <<Slash \o StrX>>),
      DocSection(StrB \o Slash \o StrA, TitleA, EmptyStr, StrB, <<>>),
      DocSection(StrB, TitleB, <<90, 90>>, EmptyStr, <<>>),
      DocSection(StrA \o Slash \o StrX, TitleB, EmptyStr, StrA, <<>>) }

\* section lists as the indexer writes them: ordered by weight, then title
DocLists ==
    { q \in SeqsUpTo(DocSections, MaxSections) :
        \A i, j \in 1..Len(q) :
            i < j => ~SectionLess(UnmarshalSection(q[j]), UnmarshalSection(q[i])) }

\* the "sections" member: absent (decoded as a nil map), or lists for the
\* current version, the previous version, or both
DocSectionMaps ==
    {EmptyMap}
    \cup {MapPut(EmptyMap, V14, q) : q \in DocLists}
    \cup {MapPut(EmptyMap, V13, q) : q \in {r \in DocLists : Len(r) <= 1}}
    \cup {MapPut(MapPut(EmptyMap, V14, q), V13, r) :
            q \in DocLists, r \in {t \in DocLists : Len(t) <= 1}}

\* the embedded documents: text that is no JSON value of the expected shape,
\* or an object with versions, latest and sections
Documents ==
    { [malformed |-> TRUE, versions |-> <<>>, latest |-> EmptyStr, sections |-> EmptyMap] }
    \cup
    [ malformed : {FALSE}, versions : {<<V14, V13>>}, latest : {V14, V13, EmptyStr},
      sections : DocSectionMaps ]

InitLoad ==
    /\ corpus = {}
    /\ built = NotRun
    /\ document \in Documents
    /\ loaded = NotRun
    /\ given = <<>>
    /\ out = NoOutput
    /\ server = NotStarted
    /\ calls = NoCalls

NextLoad ==
    \/ Load
    \/ RegisterTools
    \/ QueryGetAll
    \/ QueryGetBySlug
    \/ QueryGetByCategory
    \/ QueryTree
    \/ QuerySearch
    \/ QueryGetCategories
    \/ QueryMatchVersion
    \/ Reply

SpecLoad == InitLoad /\ [][NextLoad]_vars

(***************************************************************************)
(* Serve time: concurrent callers query the one loaded index. A request    *)
(* takes two steps, each reading the shared index as it is at that moment: *)
(* the version is resolved, then the result is computed.                   *)
(***************************************************************************)
\* the embedded documents of the serving model: three sections of the
\* current version and one of the previous; two sections and an empty list
ServedDocuments ==
    { [ malformed |-> FALSE, versions |-> <<V14, V13>>, latest |-> V14,
        sections |-> MapPut(MapPut(EmptyMap, V14,
                        << DocSection(StrA, TitleA, EmptyStr, EmptyStr, <<>>),
                           DocSection(StrA \o Slash \o StrB, TitleA, EmptyStr, StrA,
                                      <<Slash \o StrX>>),
                           DocSection(StrB, TitleB, <<90, 90>>, EmptyStr, <<>>) >>),
                        V13, <<DocSection(StrA, TitleA, EmptyStr, EmptyStr, <<>>)>>) ],
      [ malformed |-> FALSE, versions |-> <<V14, V13>>, latest |-> V13,
        sections |-> MapPut(MapPut(EmptyMap, V14, <<>>),
                        V13,
                        << DocSection(StrA \o Slash \o StrB, TitleA, EmptyStr, StrA,
                                      <<Slash \o StrX>>),
                           DocSection(StrA \o Slash \o StrX, TitleB, EmptyStr, StrA, <<>>) >>) ] }

\* list_sections requests of the serving model
ServedListRequests ==
    [ hasDepth : {TRUE}, depth : 1..MaxDepth, version : {EmptyStr, V13, V09, VersionAll},
      category : QueryCategories, root_slug : {EmptyStr, StrA} ]

\* the requests a caller can make: the Finder methods and the list_sections
\* handler, which builds the tree and converts it
ServedCalls ==
    [op : {"GetAll", "GetCategories"}, version : QueryVersions]
    \cup [op : {"GetBySlug"}, slug : QuerySlugs, version : QueryVersions]
    \cup [op : {"GetByCategory"}, category : QueryCategories, version : QueryVersions]
    \cup [op : {"Search"}, query : QueryTerms, version : QueryVersions]
    \cup [op : {"MatchVersion"}, userVersion : UserVersions]
    \cup [op : {"GetVersions", "GetLatestVersion"}]
    \cup [op : {"list_sections"}, request : ServedListRequests]

VersionedOps == {"GetAll", "GetCategories", "GetBySlug", "GetByCategory", "Search"}

\* the first step of a request: the version it works on
Resolve(idx, call) ==
    IF call.op \in VersionedOps THEN [version |-> resolveVersion(idx, call.version), err |-> ""]
    ELSE IF call.op = "list_sections"
              /\ parseListSectionsParams(call.request).Version # VersionAll
    THEN ToolResolveVersion(idx, parseListSectionsParams(call.request).Version)
    ELSE [version |-> EmptyStr, err |-> ""]

\* the second step of a request: its result, from the resolved version
Complete(idx, call, resolved) ==
    CASE call.op = "GetAll"           -> GetAll(idx, resolved.version)
      [] call.op = "GetCategories"    -> GetCategories(idx, resolved.version)
      [] call.op = "GetBySlug"        -> GetBySlug(idx, call.slug, resolved.version)
      [] call.op = "GetByCategory"    -> GetByCategory(idx, call.category, resolved.version)
      [] call.op = "Search"           -> Search(idx, call.query, resolved.version)
      [] call.op = "MatchVersion"     -> MatchVersion(idx, call.userVersion)
      [] call.op = "GetVersions"      -> [err |-> "", versions |-> GetVersions(idx)]
      [] call.op = "GetLatestVersion" -> [err |-> "", version |-> GetLatestVersion(idx)]
      [] call.op = "list_sections"    ->
            LET params == parseListSectionsParams(call.request)
            IN  IF params.Version = VersionAll THEN handleVersionsRequest(idx)
                ELSE ListSectionsFrom(idx, params, resolved)

\* a request run from start to end with no other caller
RunAlone(idx, call) == Complete(idx, call, Resolve(idx, call))

\* a variant of WrittenBy: a request for an indexed version stores that
\* version as the latest one
WrittenByRemembering(idx, call) ==
    IF "version" \in DOMAIN call /\ call.version \in DOMAIN idx.Sections
    THEN [idx EXCEPT !.Latest = call.version]
    ELSE idx

\* the shared index after a step of a request: no statement of the Finder,
\* of the tree builder or of the handlers assigns to the index, to a section
\* list or to a lookup map
WrittenBy(idx, call) == idx

InitServe ==
    /\ corpus = {}
    /\ built = NotRun
    /\ document \in ServedDocuments
    /\ loaded = LoadJSON(document)
    /\ given = <<>>
    /\ out = NoOutput
    /\ server = [pc |-> "serving", status |-> 0, tools |-> ToolNames]
    /\ calls = NoCalls

\* a step of caller c falls between the two steps of every other caller that
\* has resolved its version
Overtake(c) ==
    [ d \in Callers |->
        IF d # c /\ calls[d].pc = "resolved" THEN [calls[d] EXCEPT !.overtaken = TRUE]
        ELSE calls[d] ]

Begin(c) ==
    /\ calls[c] = Idle
    /\ \E call \in ServedCalls :
         /\ calls' = [ Overtake(c) EXCEPT ![c] =
                         [ pc |-> "resolved", call |-> call, overtaken |-> FALSE,
                           resolved |-> Resolve(loaded.index, call) ] ]
         /\ loaded' = [loaded EXCEPT !.index = WrittenBy(loaded.index, call)]
    /\ UNCHANGED <<corpus, built, document, given, out, server>>

Finish(c) ==
    /\ calls[c].pc = "resolved"
    /\ calls' = [ Overtake(c) EXCEPT ![c] =
                    [ pc |-> "done", call |-> calls[c].call, overtaken |-> calls[c].overtaken,
                      res |-> Complete(loaded.index, calls[c].call, calls[c].resolved) ] ]
    /\ loaded' = [loaded EXCEPT !.index = WrittenBy(loaded.index, calls[c].call)]
    /\ UNCHANGED <<corpus, built, document, given, out, server>>

Return(c) ==
    /\ calls[c].pc = "done"
    /\ calls' = [calls EXCEPT ![c] = Idle]
    /\ UNCHANGED <<corpus, built, document, loaded, given, out, server>>

NextServe ==
    \/ \E c \in Callers : Begin(c)
    \/ \E c \in Callers : Finish(c)
    \/ \E c \in Callers : Return(c)

SpecServe == InitServe /\ [][NextServe]_vars

(***************************************************************************)
(* The tool handlers, one request at a time, on a loaded index.            *)
(***************************************************************************)
\* the embedded documents of the tools model: those of the serving model,
\* and one that lists the previous version without holding sections for it
ToolDocuments ==
    ServedDocuments
    \cup { [ malformed |-> FALSE, versions |-> <<V14, V13>>, latest |-> V14,
             sections |-> MapPut(EmptyMap, V14,
                            <<DocSection(StrA, TitleA, EmptyStr, EmptyStr, <<>>)>>) ] }

\* list_sections requests: the depth parameter missing, or any integer from
\* below 1 to above the maximum
ListRequests ==
    [ hasDepth : {FALSE}, depth : {0}, version : QueryVersions \cup {VersionAll},
      category : QueryCategories, root_slug : {EmptyStr, StrA, StrZZ} ]
    \cup
    [ hasDepth : {TRUE}, depth : (-1)..(maxTreeDepth + 2),
      version : QueryVersions \cup {VersionAll},
      category : QueryCategories, root_slug : {EmptyStr, StrA, StrZZ} ]

\* get_documentation requests: the slug parameter missing or given
DocRequests ==
    [hasSlug : {FALSE}, slug : {EmptyStr}, version : QueryVersions]
    \cup [hasSlug : {TRUE}, slug : QuerySlugs, version : QueryVersions]

InitTools ==
    /\ corpus = {}
    /\ built = NotRun
    /\ document \in ToolDocuments
    /\ loaded = LoadJSON(document)
    /\ given = <<>>
    /\ out = NoOutput
    /\ server = [pc |-> "serving", status |-> 0, tools |-> ToolNames]
    /\ calls = NoCalls

CallListSections ==
    /\ Serving
    /\ \E request \in ListRequests :
         out' = [ op |-> "list_sections", request |-> request,
                  res |-> ListSections(loaded.index, request) ]
    /\ UNCHANGED <<corpus, built, document, loaded, given, server, calls>>

CallGetDocumentation ==
    /\ Serving
    /\ \E request \in DocRequests :
         out' = [ op |-> "get_documentation", request |-> request,
                  res |-> GetDocumentation(loaded.index, MarkdownFilesOf(loaded.index),
                                           request) ]
    /\ UNCHANGED <<corpus, built, document, loaded, given, server, calls>>

NextTools ==
    \/ CallListSections
    \/ CallGetDocumentation
    \/ Reply

SpecTools == InitTools /\ [][NextTools]_vars

(***************************************************************************)
(* The frontmatter parser on its own: any block of up to MaxEntries        *)
(* entries.                                                                *)
(***************************************************************************)
\* the entries blocks are made of: title: A / title: B / weight: 1 /
\* weight: x / aliases: with the item /a / a comment / "title": B /
\* title: "A" ? b / aliases: with the item /x / a b: 1
FmEntries ==
    { <<116, 105, 116, 108, 101, 58, 32, 65>>,
      <<116, 105, 116, 108, 101, 58, 32, 66>>,
      <<119, 101, 105, 103, 104, 116, 58, 32, 49>>,
      <<119, 101, 105, 103, 104, 116, 58, 32, 120>>,
      <<97, 108, 105, 97, 115, 101, 115, 58, 10, 32, 32, 45, 32, 47, 97>>,
      <<35, 32, 99>>,
      <<34, 116, 105, 116, 108, 101, 34, 58, 32, 66>>,
      <<116, 105, 116, 108, 101, 58, 32, 34, 65, 34, 32, 63, 32, 98>>,
      <<97, 108, 105, 97, 115, 101, 115, 58, 10, 32, 32, 45, 32, 47, 120>>,
      <<97, 32, 98, 58, 32, 49>> }

\* the blocks between the delimiters: entries joined by newlines
RawFrontmatters == {Join(q, NL) : q \in SeqsUpTo(FmEntries, MaxEntries)}

InitParse ==
    /\ corpus = {}
    /\ built = NotRun
    /\ document = NoDocument
    /\ loaded = NotRun
    /\ given \in RawFrontmatters
    /\ out = NoOutput
    /\ server = NotStarted
    /\ calls = NoCalls

Parse ==
    /\ out = NoOutput
    /\ out' = [op |-> "ParseFrontmatter", raw |-> given, res |-> parseRawFrontmatter(given)]
    /\ UNCHANGED <<corpus, built, document, loaded, given, server, calls>>

\* the recovery pass applied to a block on its own
Dedupe ==
    /\ out = NoOutput
    /\ out' = [op |-> "dedupeFrontmatter", raw |-> given, res |-> dedupeFrontmatter(given)]
    /\ UNCHANGED <<corpus, built, document, loaded, given, server, calls>>

NextParse ==
    \/ Parse
    \/ Dedupe
    \/ Reply

SpecParse == InitParse /\ [][NextParse]_vars

(***************************************************************************)
(* Section extraction on its own: a markdown file at any directory level   *)
(* of a version subtree.                                                   *)
(***************************************************************************)
\* directory names of the sample subtree
DirNames == {StrA, StrB}

\* file names: "a.md", "b.md", "_index.md", "a_index.md"
FileNames ==
    { StrA \o MdExt, StrB \o MdExt, IndexName \o MdExt, StrA \o IndexName \o MdExt }

\* a markdown file of a version subtree: the directories from the version
\* root down to it, its name, the outcome of parsing its frontmatter
MarkdownFiles ==
    [ version : VersionDirs, dirs : SeqsUpTo(DirNames, MaxDepth),
      name : FileNames, fm : Frontmatters ]

\* the path the walk hands to the callback for such a file
WalkPath(f) == Join(<<DocsRoot, f.version>> \o f.dirs \o <<f.name>>, Sep)

InitExtract ==
    /\ corpus = {}
    /\ built = NotRun
    /\ document = NoDocument
    /\ loaded = NotRun
    /\ given \in MarkdownFiles
    /\ out = NoOutput
    /\ server = NotStarted
    /\ calls = NoCalls

Extract ==
    /\ out = NoOutput
    /\ out' = [ op  |-> "ExtractSection",
                res |-> ExtractSection([dir |-> given.version, rel |-> EmptyStr, fm |-> given.fm],
                                       WalkPath(given),
                                       PathJoin(DocsRoot, given.version)) ]
    /\ UNCHANGED <<corpus, built, document, loaded, given, server, calls>>

NextExtract ==
    \/ Extract
    \/ Reply

SpecExtract == InitExtract /\ [][NextExtract]_vars

(***************************************************************************)
(* The runtime lookup tables on their own: the section list of one version *)
(* with aliases in every spelling.                                         *)
(***************************************************************************)
\* "/a", "a", "//a", "b", "docs/k6/x", "/docs/k6/x", "/docs/k6/", "/", "",
\* "/docs/k6/docs/k6/x"
WideAliasSpellings ==
    { Slash \o StrA, StrA, Slash \o Slash \o StrA, StrB,
      DocsPrefix \o StrX, Slash \o DocsPrefix \o StrX, Slash \o DocsPrefix, Slash, EmptyStr,
      Slash \o DocsPrefix \o DocsPrefix \o StrX }

\* a section as ExtractSection makes it from the file slug.md
AliasedSection(slug, aliases) ==
    [ Slug |-> slug, Path |-> PathJoin(PathJoin(DocsRoot, V14), slug \o MdExt),
      RelPath |-> slug \o MdExt, Title |-> TitleA, Description |-> EmptyStr, Weight |-> 0,
      Aliases |-> aliases, Category |-> EmptyStr, Hierarchy |-> <<>>, IsIndex |-> FALSE ]

\* section lists of distinct files "a.md", "b.md", "x.md"
AliasedLists ==
    { q \in SeqsUpTo({ AliasedSection(slug, aliases) :
                         slug \in {StrA, StrB, StrX},
                         aliases \in SeqsUpTo(WideAliasSpellings, MaxAliases) },
                     MaxFiles) :
        \A i, j \in 1..Len(q) : i # j => q[i].Slug # q[j].Slug }

\* the index of one version before its lookup tables are built
IndexOfList(sections) ==
    [ Versions |-> <<V14>>, Latest |-> V14, Sections |-> MapPut(EmptyMap, V14, sections),
      BySlug |-> EmptyMap, ByPath |-> EmptyMap ]

InitAlias ==
    /\ corpus = {}
    /\ built = NotRun
    /\ document = NoDocument
    /\ loaded = NotRun
    /\ given \in AliasedLists
    /\ out = NoOutput
    /\ server = NotStarted
    /\ calls = NoCalls

BuildIndexes ==
    /\ out = NoOutput
    /\ out' = [op |-> "buildRuntimeIndexes", res |-> buildRuntimeIndexes(IndexOfList(given))]
    /\ UNCHANGED <<corpus, built, document, loaded, given, server, calls>>

NextAlias ==
    \/ BuildIndexes
    \/ Reply

SpecAlias == InitAlias /\ [][NextAlias]_vars

(***************************************************************************)
(* The tree builder on its own: any section list, root and depth.          *)
(***************************************************************************)
\* slugs of the lists handed to the tree builder: "", "a", "a/b", "a/b/c", "b"
GivenSlugs ==
    { EmptyStr, StrA, StrA \o Slash \o StrB, StrA \o Slash \o StrB \o Slash \o <<99>>, StrB }

\* a Section literal that sets Slug and Title only, as the package tests write
SectionLiteral(slug, title) ==
    [ Slug |-> slug, Path |-> EmptyStr, RelPath |-> EmptyStr, Title |-> title,
      Description |-> EmptyStr, Weight |-> 0, Aliases |-> <<>>, Category |-> EmptyStr,
      Hierarchy |-> <<>>, IsIndex |-> FALSE ]

GivenLists ==
    SeqsUpTo({SectionLiteral(slug, title) : slug \in GivenSlugs, title \in {TitleA, TitleB}},
             MaxSections)

\* roots asked for: none, "a", "a/b", and "zz", which is no slug of any list
GivenRoots == {EmptyStr, StrA, StrA \o Slash \o StrB, StrZZ}

InitTree ==
    /\ corpus = {}
    /\ built = NotRun
    /\ document = NoDocument
    /\ loaded = NotRun
    /\ given \in GivenLists
    /\ out = NoOutput
    /\ server = NotStarted
    /\ calls = NoCalls

TreeBuild ==
    /\ out = NoOutput
    /\ \E rootSlug \in GivenRoots, depth \in 0..MaxDepth :
         out' = [op |-> "Tree", rootSlug |-> rootSlug, depth |-> depth,
                 res |-> BuildSectionTree(given, rootSlug, depth)]
    /\ UNCHANGED <<corpus, built, document, loaded, given, server, calls>>

\* the number of '/'-separated segments of the longest slug of a list
WholeDepth(sections) ==
    LET counts == {Len(Split(sections[i].Slug, Slash)) : i \in 1..Len(sections)} \cup {1}
    IN  CHOOSE n \in counts : \A m \in counts : m <= n

\* a caller asks for the whole top-level tree: the depth is that of the
\* longest slug
TreeBuildWhole ==
    /\ out = NoOutput
    /\ out' = [op |-> "Tree", rootSlug |-> EmptyStr, depth |-> WholeDepth(given),
               res |-> BuildSectionTree(given, EmptyStr, WholeDepth(given))]
    /\ UNCHANGED <<corpus, built, document, loaded, given, server, calls>>

NextTree ==
    \/ TreeBuild
    \/ TreeBuildWhole
    \/ Reply

SpecTree == InitTree /\ [][NextTree]_vars

(***************************************************************************)
(* The tree builder call by call: one step per invocation or return of     *)
(* buildSectionNode, the pending invocations on a stack.                   *)
(***************************************************************************)
\* a variant of Expands that still descends from a node at the last level
ExpandsOneDeeper(childSections, maxDepth, currentDepth) ==
    Len(childSections) > 0 /\ currentDepth <= maxDepth

\* the condition under which buildSectionNode calls itself for the children
Expands(childSections, maxDepth, currentDepth) ==
    Len(childSections) > 0 /\ currentDepth < maxDepth

\* an invocation of buildSectionNode: its section, its depth, the child the
\* loop is at
Frame(section, currentDepth) == [section |-> section, currentDepth |-> currentDepth, next |-> 1]

\* BuildSectionTree up to the loop over the roots
StartWalk ==
    /\ out = NoOutput
    /\ \E rootSlug \in GivenRoots, depth \in 1..MaxDepth :
         LET tree == BuildSectionTree(given, rootSlug, depth)
         IN  out' = [ op |-> "Walk", rootSlug |-> rootSlug, depth |-> depth,
                      err |-> tree.err,
                      roots |-> IF tree.err = ""
                                THEN ChildrenOf(ChildrenByParent(given), rootSlug)
                                ELSE <<>>,
                      nextRoot |-> 1, stack |-> <<>>, invocations |-> 0,
                      done |-> tree.err # "" ]
    /\ UNCHANGED <<corpus, built, document, loaded, given, server, calls>>

\* one step of the construction: the loop over the roots calls
\* buildSectionNode or ends; the invocation on top of the stack calls itself
\* for its next child or returns
WalkStep ==
    /\ out.op = "Walk"
    /\ ~out.done
    /\ IF out.stack = <<>>
       THEN IF out.nextRoot <= Len(out.roots)
            THEN out' = [ out EXCEPT !.stack = <<Frame(out.roots[out.nextRoot], 1)>>,
                                     !.nextRoot = @ + 1,
                                     !.invocations = @ + 1 ]
            ELSE out' = [out EXCEPT !.done = TRUE]
       ELSE LET top           == out.stack[Len(out.stack)]
                childSections == ChildrenOf(ChildrenByParent(given), top.section.Slug)
            IN  IF Expands(childSections, out.depth, top.currentDepth)
                     /\ top.next <= Len(childSections)
                THEN out' = [ out EXCEPT
                                !.stack = Append([@ EXCEPT ![Len(@)].next = top.next + 1],
                                                 Frame(childSections[top.next],
                                                       top.currentDepth + 1)),
                                !.invocations = @ + 1 ]
                ELSE out' = [out EXCEPT !.stack = SubSeq(@, 1, Len(@) - 1)]
    /\ UNCHANGED <<corpus, built, document, loaded, given, server, calls>>

\* BuildSectionTree returns
EndWalk ==
    /\ out.op = "Walk"
    /\ out.done
    /\ out' = NoOutput
    /\ UNCHANGED <<corpus, built, document, loaded, given, server, calls>>

NextWalk ==
    \/ StartWalk
    \/ WalkStep
    \/ EndWalk

\* a running construction is not suspended for ever
SpecWalk == InitTree /\ [][NextWalk]_vars /\ WF_vars(WalkStep)

(***************************************************************************)
(* Properties.                                                             *)
(***************************************************************************)
\* the indexes a run holds: the built one and the loaded one
HeldIndexes ==
    (IF built.err = "" THEN {built.index} ELSE {})
    \cup (IF loaded.err = "" THEN {loaded.index} ELSE {})

\* the cleaned aliases a section declares
CleanAliases(sec) == {CleanAlias(sec.Aliases[k]) : k \in 1..Len(sec.Aliases)}

\* C1: in every built index, for every version v and every section S of
\* Sections[v], GetBySlug(S.slug, v) succeeds and returns a section whose
\* relPath is S.relPath.
C1_PrimarySlugResolves ==
    built.err = "" =>
        \A v \in DOMAIN built.index.Sections :
            \A i \in 1..Len(built.index.Sections[v]) :
                LET sec == built.index.Sections[v][i]
                    r   == GetBySlug(built.index, sec.Slug, v)
                IN  r.err = "" /\ r.section.RelPath = sec.RelPath

\* C2: within one version of a built index no two sections extracted from
\* distinct files (distinct relPath) have the same primary slug.
C2_SlugsUnique ==
    built.err = "" =>
        \A v \in DOMAIN built.index.Sections :
            \A i, j \in 1..Len(built.index.Sections[v]) :
                built.index.Sections[v][i].RelPath # built.index.Sections[v][j].RelPath
                    => built.index.Sections[v][i].Slug # built.index.Sections[v][j].Slug

\* C3: an alias never replaces a primary slug: after the lookup tables are
\* constructed (by a build or by a load), the by-slug entry for the key S.slug
\* of every section S is a section whose primary slug is S.slug, whether or
\* not another section, earlier or later in the list, declares S.slug as an
\* alias.
C3_AliasNeverReplacesPrimary ==
    \A idx \in HeldIndexes :
        \A v \in DOMAIN idx.Sections :
            \A i \in 1..Len(idx.Sections[v]) :
                LET slug == idx.Sections[v][i].Slug
                IN  /\ slug \in DOMAIN idx.BySlug[v]
                    /\ idx.Sections[v][idx.BySlug[v][slug]].Slug = slug

\* C3 witness: a built index in which a section declares, as an alias, the
\* primary slug of a section that comes later in the list
C3_Witness ==
    /\ built.err = ""
    /\ \E v \in DOMAIN built.index.Sections :
         \E i, j \in 1..Len(built.index.Sections[v]) :
            /\ j < i
            /\ built.index.Sections[v][j].Slug # built.index.Sections[v][i].Slug
            /\ built.index.Sections[v][i].Slug \in CleanAliases(built.index.Sections[v][j])

\* the positions of a version's list whose section has primary slug k, and
\* those whose section declares an alias that cleans to k
PrimaryOf(secs, k) == {i \in 1..Len(secs) : secs[i].Slug = k}

AliasOf(secs, k) == {i \in 1..Len(secs) : k \in CleanAliases(secs[i])}

Least(S) == CHOOSE i \in S : \A j \in S : i <= j

Greatest(S) == CHOOSE i \in S : \A j \in S : j <= i

\* the statement of alias resolution for the aliases selected by Covers
AliasResolves(Covers(_)) ==
    \A idx \in HeldIndexes :
        \A v \in DOMAIN idx.Sections :
            LET secs == idx.Sections[v]
            IN  \A i \in 1..Len(secs) :
                    \A x \in {y \in CleanAliases(secs[i]) : Covers(y)} :
                        ( /\ PrimaryOf(secs, x) \subseteq {i}
                          /\ \A j \in AliasOf(secs, x) : i <= j )
                        => LET r == GetBySlug(idx, x, v)
                           IN  r.err = "" /\ r.ref = i /\ r.section = secs[i]

\* C4 as claimed: if section A of version v declares an alias with cleaned
\* form x, and x is neither the primary slug of another section of v nor an
\* alias of a section before A, then GetBySlug(x, v) returns A, also when a
\* later section declares x too.
C4_AliasResolves == AliasResolves(LAMBDA x : TRUE)

\* C4 as amended: the same for every alias whose cleaned form x is not the
\* empty string (an alias that cleans to "" is never registered).
C4_NonEmptyAliasResolves == AliasResolves(LAMBDA x : x # EmptyStr)

\* C4 witness: the server has answered GetBySlug(x, v) with the first of two
\* sections that both declare the alias x, x being no section's primary slug
C4_Witness ==
    /\ out.op = "GetBySlug"
    /\ out.res.err = ""
    /\ LET secs == GetAll(loaded.index, out.version).sections
       IN  /\ PrimaryOf(secs, out.slug) = {}
           /\ Cardinality(AliasOf(secs, out.slug)) >= 2
           /\ out.res.ref = Least(AliasOf(secs, out.slug))

\* the by-slug maps while the sections of a list are scanned: Scan(secs)[n]
\* is the map after the first n sections
ScanMaps(secs) == [n \in 0..Len(secs) |-> RegisterUpTo(secs, n).BySlug]

\* C5 as claimed: first writer wins in the by-slug table: while a version's
\* list is scanned a key already claimed (by a primary slug or by an alias)
\* is never rebound, and after construction every key maps to the earliest
\* section in list order that registered it. Stated for the versions whose
\* primary slugs are pairwise distinct, so that a violation does not rest on
\* two files sharing a slug.
C5_FirstWriterWins ==
    \A idx \in HeldIndexes :
        \A v \in DOMAIN idx.Sections :
            LET secs == idx.Sections[v]
                scan == ScanMaps(secs)
            IN  (\A i, j \in 1..Len(secs) : i # j => secs[i].Slug # secs[j].Slug) =>
                /\ \A n \in 1..Len(secs) :
                     \A k \in DOMAIN scan[n - 1] : scan[n][k] = scan[n - 1][k]
                /\ \A k \in DOMAIN idx.BySlug[v] :
                     idx.BySlug[v][k] = Least(PrimaryOf(secs, k) \cup AliasOf(secs, k))

\* C5 as amended: a key already claimed is never rebound by an alias
\* registration; only the (unconditional) registration of a primary slug
\* rebinds a key. After construction the keys are the primary slugs and the
\* non-empty cleaned aliases, and a key maps to the last section in list
\* order whose primary slug it is or, when it is no primary slug, to the
\* earliest section that declares it as an alias.
C5_OnlyPrimaryRebinds ==
    \A idx \in HeldIndexes :
        \A v \in DOMAIN idx.Sections :
            LET secs == idx.Sections[v]
                scan == ScanMaps(secs)
            IN  /\ \A n \in 1..Len(secs) :
                     \A k \in DOMAIN scan[n - 1] :
                        scan[n][k] # scan[n - 1][k] => (secs[n].Slug = k /\ scan[n][k] = n)
                /\ DOMAIN idx.BySlug[v] =
                     {secs[i].Slug : i \in 1..Len(secs)}
                     \cup (UNION {CleanAliases(secs[i]) : i \in 1..Len(secs)} \ {EmptyStr})
                /\ \A k \in DOMAIN idx.BySlug[v] :
                     idx.BySlug[v][k] =
                         IF PrimaryOf(secs, k) # {} THEN Greatest(PrimaryOf(secs, k))
                         ELSE Least(AliasOf(secs, k))

\* C5 witness: a built index in whose construction a key claimed by an alias
\* of an earlier section was rebound, and which holds a key declared as an
\* alias by the section that owns it as primary slug
C5_Witness ==
    /\ built.err = ""
    /\ \E v \in DOMAIN built.index.Sections :
         LET secs == built.index.Sections[v]
             scan == ScanMaps(secs)
         IN  \E n \in 1..Len(secs) :
                \E k \in DOMAIN scan[n - 1] :
                    /\ scan[n][k] # scan[n - 1][k]
                    /\ k \in CleanAliases(secs[n])

\* the answers of the three queries, for every version argument and every
\* key, compared between the built index and the loaded one by Same
QueryKeys(idx) ==
    QuerySlugs \cup UNION {DOMAIN idx.BySlug[v] : v \in DOMAIN idx.BySlug}

RoundTrip(Same(_, _)) ==
    (built.err = "" /\ loaded.err = "") =>
        \A v \in QueryVersions :
            /\ GetAll(built.index, v).err = "" =>
                 LET b == GetAll(built.index, v)
                     l == GetAll(loaded.index, v)
                 IN  /\ l.err = ""
                     /\ Len(l.sections) = Len(b.sections)
                     /\ \A i \in 1..Len(b.sections) : Same(b.sections[i], l.sections[i])
            /\ \A k \in QueryKeys(built.index) :
                 GetBySlug(built.index, k, v).err = "" =>
                     LET b == GetBySlug(built.index, k, v)
                         l == GetBySlug(loaded.index, k, v)
                     IN  l.err = "" /\ l.ref = b.ref /\ Same(b.section, l.section)
            /\ \A c \in QueryCategories :
                 GetByCategory(built.index, c, v).err = "" =>
                     LET b == GetByCategory(built.index, c, v)
                         l == GetByCategory(loaded.index, c, v)
                     IN  /\ l.err = ""
                         /\ Len(l.sections) = Len(b.sections)
                         /\ \A i \in 1..Len(b.sections) : Same(b.sections[i], l.sections[i])

\* C6 as claimed: the index loaded from the serialized built index answers
\* GetAll, GetBySlug (primary slugs and aliases) and GetByCategory
\* identically to the built index, for every version and every query that
\* succeeded on the built index.
C6_RoundTripIdentical == RoundTrip(LAMBDA b, l : l = b)

\* C6 as amended: the answers are identical in every field of every section
\* except Path, which is not serialized: where the built index has the
\* file's path on disk the loaded index has the empty string.
C6_RoundTripUpToPath ==
    RoundTrip(LAMBDA b, l : l = [b EXCEPT !.Path = EmptyStr] /\ b.Path # EmptyStr)

\* C6 witness: the loaded index holds a version with two sections, one of
\* which is found through an alias that is no primary slug, and the server
\* has answered GetAll for that version
C6_Witness ==
    /\ loaded.err = ""
    /\ out.op = "GetAll"
    /\ out.res.err = ""
    /\ Len(out.res.sections) >= 2
    /\ \E k \in QueryKeys(loaded.index) :
         /\ GetBySlug(loaded.index, k, out.version).err = ""
         /\ PrimaryOf(out.res.sections, k) = {}

\* the sibling lists of a forest: the list of nodes itself and, node by node,
\* the lists below it
RECURSIVE NodeLists(_)
NodeLists(nodes) ==
    {nodes} \cup UNION {NodeLists(nodes[i].Children) : i \in 1..Len(nodes)}

\* the nodes of a forest with their levels, top-level nodes being at `level`
RECURSIVE NodesAt(_, _)
NodesAt(nodes, level) ==
    {[node |-> nodes[i], level |-> level] : i \in 1..Len(nodes)}
    \cup UNION {NodesAt(nodes[i].Children, level + 1) : i \in 1..Len(nodes)}

SectionsOf(nodes) == [i \in 1..Len(nodes) |-> nodes[i].Section]

\* in a list of sections, of two that share a parent slug the one with the
\* lower weight is first, and with equal weights the one whose title is
\* lexically smaller
SiblingsOrdered(secs) ==
    \A p, q \in 1..Len(secs) :
        (p < q /\ parentSlug(secs[p].Slug) = parentSlug(secs[q].Slug)) =>
            /\ secs[p].Weight <= secs[q].Weight
            /\ secs[p].Weight = secs[q].Weight => ~StrLess(secs[q].Title, secs[p].Title)

\* C7: sibling ordering: in every index built or loaded, two sections of a
\* version that share a parent slug appear lower weight first, equal weights
\* by ascending title, in GetAll, in GetByCategory and in every list of
\* children (and of top-level nodes) of BuildSectionTree.
C7_SiblingOrder ==
    \A idx \in HeldIndexes :
        \A v \in DOMAIN idx.Sections :
            LET all == GetAll(idx, v).sections
            IN  /\ SiblingsOrdered(all)
                /\ \A c \in QueryCategories :
                     SiblingsOrdered(GetByCategory(idx, c, v).sections)
                /\ \A rootSlug \in {EmptyStr} \cup {all[i].Slug : i \in 1..Len(all)},
                      depth \in 1..MaxDepth :
                     \A nodes \in NodeLists(BuildSectionTree(all, rootSlug, depth).nodes) :
                        SiblingsOrdered(SectionsOf(nodes))

\* C7 witness: the server has answered a tree request with two top-level
\* nodes of distinct slugs and equal weight, ordered by their titles
C7_Witness ==
    /\ out.op = "BuildSectionTree"
    /\ out.res.err = ""
    /\ Len(out.res.nodes) = 2
    /\ out.res.nodes[1].Section.Slug # out.res.nodes[2].Section.Slug
    /\ out.res.nodes[1].Section.Weight = out.res.nodes[2].Section.Weight
    /\ StrLess(out.res.nodes[1].Section.Title, out.res.nodes[2].Section.Title)

\* slug s is slug p extended by exactly one '/'-separated segment; the
\* slugs without a '/' are the ones directly below the empty slug
IsChildOf(s, p) ==
    LET NoSlash(t) == \A i \in 1..Len(t) : t[i] # Slash[1]
    IN  \/ HasPrefix(s, p \o Slash) /\ NoSlash(SubSeq(s, Len(p) + 2, Len(s)))
        \/ p = EmptyStr /\ NoSlash(s)

\* slug s is slug p extended by one or more '/'-separated segments
IsDescendantOf(s, p) == HasPrefix(s, p \o Slash) /\ Len(s) > Len(p) + 1

\* the sections of a list directly below slug p, in list order
DirectChildren(secs, p) == SelectSeq(secs, LAMBDA sec : IsChildOf(sec.Slug, p))

TreeAnswered == out.op = "Tree" /\ out.res.err = ""

\* C8 as claimed: BuildSectionTree(sections, "", 1) returns nodes none of
\* which has nested children, and every returned node whose slug has a
\* descendant in the list (a slug extending it by one or more segments) has
\* its has-more flag set.
C8_DepthOneHasMoreForDescendants ==
    (TreeAnswered /\ out.rootSlug = EmptyStr /\ out.depth = 1) =>
        \A i \in 1..Len(out.res.nodes) :
            LET node == out.res.nodes[i]
            IN  /\ node.Children = <<>>
                /\ (\E k \in 1..Len(given) : IsDescendantOf(given[k].Slug, node.Section.Slug))
                     => node.HasMoreChildren

\* C8 as amended: BuildSectionTree(sections, "", 1) returns nodes none of
\* which has nested children, and a returned node has its has-more flag set
\* exactly when the list holds a section directly below it (a slug extending
\* the node's slug by exactly one segment); a node with deeper descendants
\* only has the flag unset.
C8_DepthOneHasMoreForChildren ==
    (TreeAnswered /\ out.rootSlug = EmptyStr /\ out.depth = 1) =>
        \A i \in 1..Len(out.res.nodes) :
            LET node == out.res.nodes[i]
            IN  /\ node.Children = <<>>
                /\ node.HasMoreChildren
                     = (\E k \in 1..Len(given) : IsChildOf(given[k].Slug, node.Section.Slug))

\* C8 witness: a depth-1 tree of the whole list in which a top-level node
\* has a descendant two or more segments below it, none directly below it,
\* and its has-more flag unset
C8_Witness ==
    /\ TreeAnswered /\ out.rootSlug = EmptyStr /\ out.depth = 1
    /\ \E i \in 1..Len(out.res.nodes) :
         /\ \E k \in 1..Len(given) :
               IsDescendantOf(given[k].Slug, out.res.nodes[i].Section.Slug)
         /\ out.res.nodes[i].ChildCount = 0
         /\ ~out.res.nodes[i].HasMoreChildren
         /\ out.res.nodes[i].Children = <<>>

\* C9: node shape by level: in a tree returned by BuildSectionTree(sections,
\* root, d) every node at level l (top-level nodes at level 1) has l <= d; its
\* child count is the number of sections of the list directly below its
\* slug; its children are all of these, in list order, iff there are any and
\* l < d, and none otherwise; its has-more flag is set iff there are any and
\* l = d.
C9_NodeShapeByLevel ==
    TreeAnswered =>
        \A r \in NodesAt(out.res.nodes, 1) :
            LET kids == DirectChildren(given, r.node.Section.Slug)
            IN  /\ r.level <= out.depth
                /\ r.node.ChildCount = Len(kids)
                /\ r.node.HasChildren = (Len(kids) > 0)
                /\ SectionsOf(r.node.Children)
                     = (IF Len(kids) > 0 /\ r.level < out.depth THEN kids ELSE <<>>)
                /\ r.node.HasMoreChildren = (Len(kids) > 0 /\ r.level = out.depth)

\* C9 witness: a depth-2 tree with a top-level node whose children are
\* materialised, one of them (at level 2) with has-more set, and a node with
\* no children and no has-more flag
C9_Witness ==
    /\ TreeAnswered /\ out.depth = 2
    /\ \E r, q \in NodesAt(out.res.nodes, 1) :
         /\ r.level = 1 /\ Len(r.node.Children) >= 1
         /\ r.node.Children[1].HasMoreChildren
         /\ r.node.Children[1].Children = <<>>
         /\ q.node.ChildCount = 0 /\ ~q.node.HasMoreChildren

\* C10: BuildSectionTree fails exactly when depth < 1 ("depth must be at
\* least 1", whatever the root) or when a non-empty root is the slug of no
\* section of the list ("root slug not found"), and a failure returns no
\* nodes; on success with a non-empty root the top-level nodes are exactly
\* the sections directly below the root, in list order, and the root section
\* is not among them.
C10_TreeErrorsAndRoot ==
    out.op = "Tree" =>
        LET badDepth == out.depth < 1
            badRoot  == /\ out.rootSlug # EmptyStr
                        /\ \A k \in 1..Len(given) : given[k].Slug # out.rootSlug
        IN  /\ (out.res.err # "") = (badDepth \/ badRoot)
            /\ badDepth => out.res.err = "depth must be at least 1"
            /\ (~badDepth /\ badRoot) => out.res.err = "root slug not found"
            /\ out.res.err # "" => out.res.nodes = <<>>
            /\ (out.res.err = "" /\ out.rootSlug # EmptyStr) =>
                 /\ SectionsOf(out.res.nodes) = DirectChildren(given, out.rootSlug)
                 /\ \A i \in 1..Len(out.res.nodes) :
                      out.res.nodes[i].Section.Slug # out.rootSlug

\* C10 witness: a tree answered for a non-empty root that is in the list,
\* with a top-level node, from a list that also holds a section two segments
\* below the root
C10_Witness ==
    /\ TreeAnswered
    /\ out.rootSlug # EmptyStr
    /\ Len(out.res.nodes) >= 1
    /\ \E k \in 1..Len(given) :
         /\ IsDescendantOf(given[k].Slug, out.rootSlug)
         /\ ~IsChildOf(given[k].Slug, out.rootSlug)

\* the first two dot-separated components of s followed by ".x"; s has a dot
MajorMinorX(s) ==
    LET dots   == {i \in 1..Len(s) : s[i] = Dot[1]}
        first  == Least(dots)
        others == dots \ {first}
        last   == IF others = {} THEN Len(s) ELSE Least(others) - 1
    IN  SubSeq(s, 1, last) \o Dot \o StrX

\* C11: MatchVersion(s) returns latest without error when s is empty; else s
\* without error when s is indexed; else '<first>.<second>.x' without error
\* when s has at least two dot-separated components and that version is
\* indexed; otherwise latest with the no-exact-match error. The version
\* returned is always an indexed version or latest.
C11_MatchVersion ==
    out.op = "MatchVersion" =>
        LET s       == out.userVersion
            indexed == DOMAIN loaded.index.Sections
            latest  == loaded.index.Latest
            hasTwo  == \E i \in 1..Len(s) : s[i] = Dot[1]
        IN  /\ out.res =
                 IF s = EmptyStr THEN [version |-> latest, err |-> ""]
                 ELSE IF s \in indexed THEN [version |-> s, err |-> ""]
                 ELSE IF hasTwo /\ MajorMinorX(s) \in indexed
                 THEN [version |-> MajorMinorX(s), err |-> ""]
                 ELSE [version |-> latest, err |-> "no exact match for version"]
            /\ out.res.version \in indexed \cup {latest}

\* C11 witness: the server has matched "v1.4.0" to the indexed "v1.4.x",
\* which is not the latest version
C11_Witness ==
    /\ out.op = "MatchVersion"
    /\ out.userVersion = <<118, 49, 46, 52, 46, 48>>
    /\ out.res = [version |-> V14, err |-> ""]
    /\ loaded.index.Latest # V14

\* C12: for each of GetAll, GetBySlug, GetByCategory, Search and
\* GetCategories, the call with the empty version string returns the same
\* value and the same error outcome as the same call with
\* version = GetLatestVersion(); so does every answer the server has given
\* for the empty version.
C12_EmptyVersionIsLatest ==
    loaded.err = "" =>
        LET idx    == loaded.index
            latest == GetLatestVersion(idx)
        IN  /\ GetAll(idx, EmptyStr) = GetAll(idx, latest)
            /\ GetCategories(idx, EmptyStr) = GetCategories(idx, latest)
            /\ \A slug \in QueryKeys(idx) :
                 GetBySlug(idx, slug, EmptyStr) = GetBySlug(idx, slug, latest)
            /\ \A category \in QueryCategories \cup {StrB} :
                 GetByCategory(idx, category, EmptyStr) = GetByCategory(idx, category, latest)
            /\ \A query \in QueryTerms :
                 Search(idx, query, EmptyStr) = Search(idx, query, latest)
            /\ (out # NoOutput /\ "version" \in DOMAIN out /\ out.version = EmptyStr) =>
                 out.res = CASE out.op = "GetAll" -> GetAll(idx, latest)
                             [] out.op = "GetBySlug" -> GetBySlug(idx, out.slug, latest)
                             [] out.op = "GetByCategory" ->
                                    GetByCategory(idx, out.category, latest)
                             [] out.op = "Search" -> Search(idx, out.query, latest)
                             [] out.op = "GetCategories" -> GetCategories(idx, latest)
                             [] OTHER -> out.res

\* C12 witness: the server has answered GetCategories for the empty version
\* with the categories of the latest version, which is not the first of the
\* version list
C12_Witness ==
    /\ out.op = "GetCategories"
    /\ out.version = EmptyStr
    /\ out.res.err = ""
    /\ Len(out.res.categories) >= 1
    /\ loaded.index.Latest # loaded.index.Versions[1]

\* C13: query errors are explicit and never partial: when the resolved
\* version has no entry in the index, GetAll, GetBySlug, GetByCategory,
\* Search and GetCategories return version-not-found and no result; GetBySlug
\* with an indexed version and a key that is neither a primary slug nor a
\* registered (non-empty, normalized) alias returns section-not-found and no
\* section; GetByCategory on an indexed version with no matching section
\* returns an empty result and no error.
C13_QueryErrors ==
    loaded.err = "" =>
        LET idx == loaded.index
        IN  \A version \in QueryVersions :
                LET v == IF version = EmptyStr THEN idx.Latest ELSE version
                IN  IF v \notin DOMAIN idx.Sections
                    THEN /\ GetAll(idx, version) = [err |-> "version not found", sections |-> <<>>]
                         /\ GetCategories(idx, version)
                              = [err |-> "version not found", categories |-> <<>>]
                         /\ \A slug \in QuerySlugs :
                              GetBySlug(idx, slug, version)
                                = [err |-> "version not found", ref |-> 0, section |-> NilSection]
                         /\ \A category \in QueryCategories :
                              GetByCategory(idx, category, version)
                                = [err |-> "version not found", sections |-> <<>>]
                         /\ \A query \in QueryTerms :
                              Search(idx, query, version)
                                = [err |-> "version not found", sections |-> <<>>]
                    ELSE LET secs == idx.Sections[v]
                         IN  /\ \A slug \in QuerySlugs :
                                  (PrimaryOf(secs, slug) = {}
                                     /\ (slug = EmptyStr \/ AliasOf(secs, slug) = {}))
                                  => GetBySlug(idx, slug, version)
                                       = [err |-> "section not found", ref |-> 0,
                                          section |-> NilSection]
                             /\ \A category \in QueryCategories \cup {StrB} :
                                  (\A i \in 1..Len(secs) : secs[i].Category # category)
                                  => GetByCategory(idx, category, version)
                                       = [err |-> "", sections |-> <<>>]

\* C13 witness: the server has answered GetBySlug with section-not-found for
\* a version that is indexed and holds sections, on an index in which another
\* version of the Versions list has no entry
C13_Witness ==
    /\ out.op = "GetBySlug"
    /\ out.version # EmptyStr
    /\ out.res = [err |-> "section not found", ref |-> 0, section |-> NilSection]
    /\ Len(loaded.index.Sections[out.version]) >= 1
    /\ \E i \in 1..Len(loaded.index.Versions) :
         GetAll(loaded.index, loaded.index.Versions[i]).err = "version not found"

\* r is the subsequence of all, in the same relative order, of exactly the
\* elements at the positions in P
IsFilterOf(r, all, P) ==
    /\ Len(r) = Cardinality(P)
    /\ \A i \in P : r[Cardinality({j \in P : j <= i})] = all[i]

\* q occurs in s as a substring once both are lower-cased
OccursIgnoringCase(s, q) ==
    \E k \in 0..(Len(s) - Len(q)) :
        \A i \in 1..Len(q) : ToLower(s)[k + i] = ToLower(q)[i]

\* C14: GetByCategory(c, v) and Search(q, v) are exact, order-preserving
\* filters of GetAll(v): the result is the subsequence of GetAll(v), in the
\* same relative order, of exactly the sections whose category equals c,
\* respectively whose title, description or slug contains q after
\* lower-casing both sides; nothing is duplicated, dropped or reordered.
C14_ExactFilters ==
    loaded.err = "" =>
        LET idx == loaded.index
        IN  \A version \in QueryVersions :
                LET all == GetAll(idx, version)
                IN  all.err = "" =>
                      /\ \A category \in QueryCategories \cup {StrB} :
                           LET r == GetByCategory(idx, category, version)
                           IN  /\ r.err = ""
                               /\ IsFilterOf(r.sections, all.sections,
                                     {i \in 1..Len(all.sections) :
                                        all.sections[i].Category = category})
                      /\ \A query \in QueryTerms :
                           LET r == Search(idx, query, version)
                           IN  /\ r.err = ""
                               /\ IsFilterOf(r.sections, all.sections,
                                     {i \in 1..Len(all.sections) :
                                        \/ OccursIgnoringCase(all.sections[i].Title, query)
                                        \/ OccursIgnoringCase(all.sections[i].Description, query)
                                        \/ OccursIgnoringCase(all.sections[i].Slug, query)})

\* C14 witness: the server has answered Search for the upper-case term "B"
\* with two sections that are not adjacent in the version's list
C14_Witness ==
    /\ out.op = "Search"
    /\ out.query = TitleB
    /\ out.res.err = ""
    /\ Len(out.res.sections) = 2
    /\ LET all == GetAll(loaded.index, out.version).sections
       IN  /\ Len(all) = 3
           /\ out.res.sections = <<all[1], all[3]>>

\* C15: GetCategories(v) returns each non-empty category that occurs among
\* the sections of v exactly once, ordered by the position of its first
\* occurrence in GetAll(v); the empty category is never listed.
C15_CategoriesOnceInFirstOccurrenceOrder ==
    loaded.err = "" =>
        \A version \in QueryVersions :
            LET all == GetAll(loaded.index, version)
                r   == GetCategories(loaded.index, version)
                FirstAt(c) == Least({k \in 1..Len(all.sections) : all.sections[k].Category = c})
            IN  all.err = "" =>
                  /\ r.err = ""
                  /\ {r.categories[i] : i \in 1..Len(r.categories)}
                       = {all.sections[k].Category : k \in 1..Len(all.sections)} \ {EmptyStr}
                  /\ \A i, j \in 1..Len(r.categories) :
                       i < j => /\ r.categories[i] # r.categories[j]
                                /\ FirstAt(r.categories[i]) < FirstAt(r.categories[j])

\* C15 witness: the server has answered GetCategories with <<"a", "b">> for
\* a list whose category "a" occurs again after the first section of
\* category "b"
C15_Witness ==
    /\ out.op = "GetCategories"
    /\ out.res = [err |-> "", categories |-> <<StrA, StrB>>]
    /\ LET all == GetAll(loaded.index, out.version).sections
       IN  \E i, j, k \in 1..Len(all) :
              /\ i < j /\ j < k
              /\ all[i].Category = StrA /\ all[j].Category = StrB /\ all[k].Category = StrA

\* both lookup maps of an index cover every version of Sections and, for
\* each, every primary slug, every non-empty normalized alias and every
\* relative path of the version's list, each entry pointing into that list
MapsComplete(idx) ==
    /\ DOMAIN idx.BySlug = DOMAIN idx.Sections
    /\ DOMAIN idx.ByPath = DOMAIN idx.Sections
    /\ \A v \in DOMAIN idx.Sections :
         LET secs == idx.Sections[v]
         IN  /\ DOMAIN idx.BySlug[v] =
                  {secs[i].Slug : i \in 1..Len(secs)}
                  \cup (UNION {CleanAliases(secs[i]) : i \in 1..Len(secs)} \ {EmptyStr})
             /\ DOMAIN idx.ByPath[v] = {secs[i].RelPath : i \in 1..Len(secs)}
             /\ \A k \in DOMAIN idx.BySlug[v] : idx.BySlug[v][k] \in 1..Len(secs)
             /\ \A q \in DOMAIN idx.ByPath[v] :
                  idx.ByPath[v][q] = Greatest({i \in 1..Len(secs) : secs[i].RelPath = q})

\* C16: index loading is atomic and gates start-up: LoadJSON on a malformed
\* document returns an error and no index, and run then returns 1 without
\* registering a tool or serving a request; a request is only ever served
\* with the tools registered on a successfully loaded index, and from the
\* moment a load has succeeded both lookup maps are complete.
C16_LoadGatesStartup ==
    /\ (document # NoDocument /\ document.malformed /\ loaded # NotRun) =>
         /\ loaded = [err |-> "failed to unmarshal index", index |-> NilIndex]
         /\ server = [pc |-> "returned", status |-> 1, tools |-> {}]
    /\ (loaded # NotRun /\ loaded.err # "") =>
         /\ loaded.index = NilIndex
         /\ server.pc = "returned" /\ server.status = 1
    /\ server.pc = "returned" => (server.tools = {} /\ out = NoOutput)
    /\ out # NoOutput =>
         (server.pc = "serving" /\ server.tools = ToolNames /\ loaded.err = "")
    /\ server.pc \in {"loaded", "serving"} =>
         (loaded.err = "" /\ MapsComplete(loaded.index))

\* C16 witness: run has returned 1 on a malformed document
C16_Witness ==
    /\ document # NoDocument
    /\ document.malformed
    /\ loaded.err = "failed to unmarshal index"
    /\ server.pc = "returned"
    /\ server.status = 1

BuiltMulti == built # NotRun /\ built.op = "BuildMultiVersionIndex"

\* C17: a missing version subdirectory is fatal for the whole build: if any
\* identifier of the list given to BuildMultiVersionIndex has no
\* subdirectory under the root the call returns an error and no index,
\* whatever its position and however many earlier versions were walked; an
\* empty list is likewise an error.
C17_MissingVersionIsFatal ==
    BuiltMulti =>
        LET versions == built.versions
            missing  == {i \in 1..Len(versions) :
                            \A f \in corpus : f.dir # versions[i]}
        IN  /\ versions = <<>> =>
                 (built.err = "no versions specified" /\ built.index = NilIndex)
            /\ missing # {} =>
                 (built.err = "version directory not found" /\ built.index = NilIndex)

\* C17 witness: the build has failed on a list whose first version has a
\* directory with a markdown file and whose second version has none
C17_Witness ==
    /\ BuiltMulti
    /\ Len(built.versions) = 2
    /\ \E f \in corpus : f.dir = built.versions[1] /\ IsMarkdownName(f.rel) /\ ~f.fm.err
    /\ \A f \in corpus : f.dir # built.versions[2]
    /\ built.err = "version directory not found"
    /\ built.index = NilIndex

\* the markdown files of a version directory whose frontmatter parses
ParsedFiles(version) ==
    {f \in corpus : f.dir = version /\ HasSuffix(f.rel, MdExt) /\ ~f.fm.err}

\* C18: a per-file frontmatter failure never aborts the walk: when every
\* version directory of the build exists the build succeeds, whatever files
\* fail, and each version's section list holds exactly one section for every
\* markdown file whose frontmatter parses (with that file's relative path,
\* title, description, weight and aliases) and none for a failing file, a
\* non-markdown file or a directory.
C18_FileFailureDoesNotAbort ==
    (built # NotRun /\ built.versions # <<>>
       /\ \A i \in 1..Len(built.versions) : \E f \in corpus : f.dir = built.versions[i]) =>
        /\ built.err = ""
        /\ DOMAIN built.index.Sections = {built.versions[i] : i \in 1..Len(built.versions)}
        /\ \A v \in DOMAIN built.index.Sections :
             LET secs == built.index.Sections[v]
             IN  /\ Len(secs) = Cardinality(ParsedFiles(v))
                 /\ \A f \in ParsedFiles(v) :
                      \E i \in 1..Len(secs) :
                          /\ secs[i].RelPath = f.rel
                          /\ secs[i].Title = f.fm.Title
                          /\ secs[i].Description = f.fm.Description
                          /\ secs[i].Weight = f.fm.Weight
                          /\ secs[i].Aliases = f.fm.Aliases
                          /\ \A j \in 1..Len(secs) : secs[j].RelPath = f.rel => j = i

\* C18 witness: a build has succeeded on a version directory that holds a
\* markdown file whose frontmatter fails and another that parses, and the
\* version's list holds one section
C18_Witness ==
    /\ BuiltMulti
    /\ built.err = ""
    /\ \E v \in DOMAIN built.index.Sections :
         /\ \E f \in corpus : f.dir = v /\ HasSuffix(f.rel, MdExt) /\ f.fm.err
         /\ Cardinality(ParsedFiles(v)) = 1
         /\ Len(built.index.Sections[v]) = 1

\* C19: every index returned by BuildMultiVersionIndex has Latest equal to
\* the first element of the version list it was given, and every identifier
\* of that list has an entry in Sections and in both lookup maps (possibly
\* empty); so GetAll("") on a built index never fails with
\* version-not-found.
C19_LatestAndEntriesAssigned ==
    (BuiltMulti /\ built.err = "") =>
        LET idx == built.index
        IN  /\ idx.Versions = built.versions
            /\ idx.Latest = built.versions[1]
            /\ \A i \in 1..Len(built.versions) :
                 /\ built.versions[i] \in DOMAIN idx.Sections
                 /\ built.versions[i] \in DOMAIN idx.BySlug
                 /\ built.versions[i] \in DOMAIN idx.ByPath
            /\ GetAll(idx, EmptyStr).err = ""
            /\ GetAll(idx, EmptyStr).sections = idx.Sections[built.versions[1]]

\* C19 witness: a built index of two versions whose first version has an
\* empty section list and empty maps, and whose second has a section
C19_Witness ==
    /\ BuiltMulti
    /\ built.err = ""
    /\ Len(built.versions) = 2
    /\ built.index.Sections[built.versions[1]] = <<>>
    /\ DOMAIN built.index.BySlug[built.versions[1]] = {}
    /\ Len(built.index.Sections[built.versions[2]]) = 1
    /\ GetAll(built.index, EmptyStr) = [err |-> "", sections |-> <<>>]

\* the value of the last line of a block that declares the top-level key k
LastDeclared(raw, k) ==
    LET lines == Split(raw, NL)
        at    == {i \in 1..Len(lines) : topLevelKey(lines[i]) = [key |-> k, ok |-> TRUE]}
    IN  YamlValue(lines[Greatest(at)])

\* the list items under the last line of a block that declares the key k
LastDeclaredItems(raw, k) ==
    LET lines == Split(raw, NL)
        at    == {i \in 1..Len(lines) : topLevelKey(lines[i]) = [key |-> k, ok |-> TRUE]}
    IN  YamlItems(lines, Greatest(at) + 1)

Redeclared(raw, k) ==
    LET lines == Split(raw, NL)
    IN  Cardinality({i \in 1..Len(lines) : topLevelKey(lines[i]) = [key |-> k, ok |-> TRUE]}) >= 2

\* C20: ParseFrontmatter outcomes: when the first parse of the block
\* succeeds its record is returned; when it fails for a reason other than
\* duplicate mapping keys an error is returned without recovery; when it
\* fails on duplicate keys an error is returned if the deduplicated text
\* equals the original or the second parse fails, and otherwise the record
\* parsed from the deduplicated text, in which every re-declared top-level
\* key carries the value of its last declaration.
C20_ParseOutcomes ==
    out.op = "ParseFrontmatter" =>
        LET first     == yamlUnmarshal(out.raw)
            sanitized == dedupeFrontmatter(out.raw)
            second    == yamlUnmarshal(sanitized)
        IN  IF first.kind = "ok" THEN out.res = FrontmatterOf(first.fm)
            ELSE IF first.kind # "duplicate key" THEN out.res = FrontmatterError
            ELSE IF sanitized = out.raw \/ second.kind # "ok" THEN out.res = FrontmatterError
            ELSE /\ out.res = FrontmatterOf(second.fm)
                 /\ Redeclared(out.raw, KeyTitle) =>
                      out.res.Title = LastDeclared(out.raw, KeyTitle)
                 /\ Redeclared(out.raw, KeyWeight) =>
                      <<48 + out.res.Weight>> = LastDeclared(out.raw, KeyWeight)
                 /\ Redeclared(out.raw, KeyAliases) =>
                      out.res.Aliases = LastDeclaredItems(out.raw, KeyAliases)

\* C21: for every file named "_index.md", at any directory level of the
\* version subtree including the version root, the extracted section has
\* IsIndex set and its slug is the '/'-joined directory segments of the
\* directory that contains it; every other markdown file has IsIndex unset
\* and slug = directory segments plus the file name without extension.
C21_IndexSlugCollapse ==
    (out.op = "ExtractSection" /\ ~out.res.err) =>
        LET sec == out.res.section
        IN  IF given.name = IndexName \o MdExt
            THEN sec.IsIndex /\ sec.Slug = Join(given.dirs, Slash)
            ELSE /\ ~sec.IsIndex
                 /\ sec.Slug = Join(given.dirs \o <<TrimSuffix(given.name, MdExt)>>, Slash)

C24_LookupMembership ==
    \A idx \in HeldIndexes :
        /\ DOMAIN idx.BySlug \subseteq DOMAIN idx.Sections
        /\ DOMAIN idx.ByPath \subseteq DOMAIN idx.Sections
        /\ \A v \in DOMAIN idx.BySlug :
             LET secs == idx.Sections[v]
             IN  /\ \A k \in DOMAIN idx.BySlug[v] :
                      LET i == idx.BySlug[v][k]
                      IN  /\ i \in 1..Len(secs)
                          /\ k = secs[i].Slug \/ k \in CleanAliases(secs[i])
                          /\ GetBySlug(idx, k, v).err = ""
                          /\ \E j \in 1..Len(GetAll(idx, v).sections) :
                               GetAll(idx, v).sections[j] = GetBySlug(idx, k, v).section
                 /\ \A q \in DOMAIN idx.ByPath[v] :
                      LET i == idx.ByPath[v][q]
                      IN  i \in 1..Len(secs) /\ q = secs[i].RelPath

\* C24 witness: a loaded index of two versions in which one key is an alias
\* of a section in one version and the primary slug of a section with
\* another relPath in the other version.
C24_Witness ==
    /\ loaded.err = ""
    /\ {V14, V13} \subseteq DOMAIN loaded.index.BySlug
    /\ \E k \in DOMAIN loaded.index.BySlug[V14] \cap DOMAIN loaded.index.BySlug[V13] :
         LET s14 == loaded.index.Sections[V14][loaded.index.BySlug[V14][k]]
             s13 == loaded.index.Sections[V13][loaded.index.BySlug[V13][k]]
         IN  /\ s14.Slug # k
             /\ s13.Slug = k
             /\ s14.RelPath # s13.RelPath

\* the top-level key line that owns line i: the last key line at or before
\* it, 0 for a line before the first key line
OwnerOf(lines, i) ==
    LET before == {j \in 1..i : topLevelKey(lines[j]).ok}
    IN  IF before = {} THEN 0 ELSE Greatest(before)

\* line i is kept: it precedes every key line, or no later key line
\* declares the key of its owner
KeptLine(lines, i) ==
    LET o == OwnerOf(lines, i)
    IN  o = 0 \/ ~\E j \in (o + 1)..Len(lines) : topLevelKey(lines[j]) = topLevelKey(lines[o])

KeptLines(lines) ==
    LET kept == SelectSeq([i \in 1..Len(lines) |-> i], LAMBDA i : KeptLine(lines, i))
    IN  [n \in 1..Len(kept) |-> lines[kept[n]]]

RepeatsKey(lines) ==
    \E i, j \in 1..Len(lines) :
        i # j /\ topLevelKey(lines[i]).ok /\ topLevelKey(lines[i]) = topLevelKey(lines[j])

\* C25: dedupeFrontmatter keeps, for each distinct top-level key, its last
\* block only: the output is the lines before the first key line followed by
\* the retained blocks in their original order, an earlier block of a
\* repeated key being removed with its continuation lines; a text with no
\* repeated key is returned unchanged, and applying the function twice
\* gives the same text as applying it once.
C25_DedupeKeepsLastBlocks ==
    out.op = "dedupeFrontmatter" =>
        LET lines == Split(out.raw, NL)
        IN  /\ out.res = Join(KeptLines(lines), NL)
            /\ ~RepeatsKey(lines) => out.res = out.raw
            /\ dedupeFrontmatter(out.res) = out.res

\* C25 witness: a block in which an aliases entry with an indented item is
\* declared again later: the earlier entry and its item are gone, the rest
\* is in its original order.
C25_Witness ==
    /\ out.op = "dedupeFrontmatter"
    /\ LET lines == Split(out.raw, NL)
       IN  /\ RepeatsKey(lines)
           /\ \E i \in 1..Len(lines) :
                /\ HasPrefix(lines[i], <<32>>)
                /\ ~KeptLine(lines, i)
           /\ Len(Split(out.res, NL)) >= 3
           /\ out.res # out.raw
           /\ out.res = Join(KeptLines(lines), NL)

\* the normalized form of an alias: one leading '/' removed if present, then
\* one leading "docs/k6/" removed if present
Normalized(alias) ==
    LET a1 == IF Len(alias) > 0 /\ alias[1] = 47 THEN Tail(alias) ELSE alias
    IN  IF Len(a1) >= 8 /\ SubSeq(a1, 1, 8) = DocsPrefix THEN SubSeq(a1, 9, Len(a1)) ELSE a1

\* the list without the aliases whose normalized form is the section's own slug
WithoutSelfAliases(secs) ==
    [ i \in 1..Len(secs) |->
        [ secs[i] EXCEPT !.Aliases =
            SelectSeq(secs[i].Aliases, LAMBDA a : Normalized(a) # secs[i].Slug) ] ]

\* C26: an alias is registered only under its normalized form (one leading
\* '/' removed, then one leading "docs/k6/"); an alias whose normalized form
\* is empty is never registered, so the by-slug map never gains the empty
\* key from an alias; an alias equal to its own section's primary slug
\* changes nothing.
C26_AliasNormalization ==
    out.op = "buildRuntimeIndexes" =>
        LET secs    == given
            bySlug  == out.res.BySlug[V14]
            slugs   == {secs[i].Slug : i \in 1..Len(secs)}
            aliases == UNION {{secs[i].Aliases[k] : k \in 1..Len(secs[i].Aliases)} :
                              i \in 1..Len(secs)}
        IN  /\ DOMAIN bySlug = slugs \cup ({Normalized(a) : a \in aliases} \ {EmptyStr})
            /\ \A k \in DOMAIN bySlug \ slugs :
                 \E a \in {secs[bySlug[k]].Aliases[n] : n \in 1..Len(secs[bySlug[k]].Aliases)} :
                     k = Normalized(a)
            /\ EmptyStr \notin DOMAIN bySlug
            /\ bySlug = buildRuntimeIndexes(IndexOfList(WithoutSelfAliases(secs))).BySlug[V14]

\* C26 witness: "//a" is registered as "/a", beside a section whose alias
\* "/docs/k6/" normalizes to the empty string and is not registered.
C26_Witness ==
    /\ out.op = "buildRuntimeIndexes"
    /\ \E i, j \in 1..Len(given) :
         /\ given[i].Aliases = <<Slash \o Slash \o StrA>>
         /\ given[j].Aliases = <<Slash \o DocsPrefix>>
         /\ out.res.BySlug[V14][Slash \o StrA] = i
    /\ Cardinality(DOMAIN out.res.BySlug[V14]) = 3

\* C27: list_sections clamps the requested depth before the tree is built:
\* a missing depth or a depth below 1 becomes 1, a depth above 5 becomes 5,
\* any other is passed unchanged; BuildSectionTree is never called with a
\* depth below 1, no invalid-depth error is surfaced, and the depth field
\* of the response is the clamped value.
C27_DepthClamped ==
    out.op = "list_sections" =>
        LET clamped == IF ~out.request.hasDepth \/ out.request.depth < 1 THEN 1
                       ELSE IF out.request.depth > 5 THEN 5
                       ELSE out.request.depth
        IN  /\ "builtWith" \in DOMAIN out.res =>
                 (out.res.builtWith = clamped /\ out.res.builtWith >= 1)
            /\ "cause" \in DOMAIN out.res => out.res.cause # "depth must be at least 1"
            /\ "Depth" \in DOMAIN out.res => out.res.Depth = clamped

\* C27 witness: a request for a depth above 5 is answered with a tree and
\* the depth 5.
C27_Witness ==
    /\ out.op = "list_sections"
    /\ out.request.hasDepth
    /\ out.request.depth > 5
    /\ ~out.res.isError
    /\ "Tree" \in DOMAIN out.res
    /\ Len(out.res.Tree) > 0
    /\ out.res.Depth = 5
    /\ out.res.builtWith = 5

\* C28: a get_documentation request that names a version which is not
\* indexed is rejected as a version error before any section lookup, the
\* slug being resolved against no other version; and a successful response
\* reports the indexed version whose section list holds the returned section.
C28_UnindexedVersionRejected ==
    (out.op = "get_documentation" /\ out.request.hasSlug) =>
        /\ (out.request.version # EmptyStr
              /\ out.request.version \notin DOMAIN loaded.index.Sections) =>
             /\ out.res.isError
             /\ out.res.err = "version not found"
             /\ "lookedUpIn" \notin DOMAIN out.res
        /\ ~out.res.isError =>
             /\ out.res.Version \in DOMAIN loaded.index.Sections
             /\ \E i \in 1..Len(loaded.index.Sections[out.res.Version]) :
                  loaded.index.Sections[out.res.Version][i] = out.res.Section

\* the number of nodes of a forest
RECURSIVE CountNodes(_)
CountNodes(nodes) ==
    IF Len(nodes) = 0 THEN 0
    ELSE 1 + CountNodes(nodes[1].Children) + CountNodes(Tail(nodes))

\* the height of a forest
RECURSIVE Height(_)
Height(nodes) ==
    IF Len(nodes) = 0 THEN 0
    ELSE LET h == 1 + Height(nodes[1].Children)
             t == Height(Tail(nodes))
         IN  IF h > t THEN h ELSE t

\* C29: BuildSectionTree terminates for every section list, root and depth
\* of at least 1, and the tree has height at most depth, with no cycle
\* detection, also for lists with duplicated slugs or a section whose slug
\* is empty: a construction that has started ends, never more than depth
\* invocations of buildSectionNode are pending, and it has made one
\* invocation per node of the returned tree.
C29_TreeTerminates ==
    /\ [](out.op = "Walk" =>
            /\ Len(out.stack) <= out.depth
            /\ Height(BuildSectionTree(given, out.rootSlug, out.depth).nodes) <= out.depth
            /\ out.done =>
                 out.invocations = CountNodes(BuildSectionTree(given, out.rootSlug, out.depth).nodes))
    /\ (out.op = "Walk") ~> (out.op = "Walk" /\ out.done)

\* C29 witness: a construction has ended, at the top level with depth 2, on
\* a list that holds a section with the empty slug and two sections of one
\* slug; the section with the empty slug was visited as its own child.
C29_Witness ==
    /\ out.op = "Walk" /\ out.done /\ out.err = ""
    /\ out.rootSlug = EmptyStr /\ out.depth = 2
    /\ \E i, j, k \in 1..Len(given) :
         /\ given[i].Slug = EmptyStr
         /\ j # k /\ given[j].Slug = given[k].Slug
    /\ out.invocations > Len(given)

\* how many nodes of a forest hold the section sec
RECURSIVE CountOf(_, _)
CountOf(nodes, sec) ==
    IF Len(nodes) = 0 THEN 0
    ELSE (IF nodes[1].Section = sec THEN 1 ELSE 0)
         + CountOf(nodes[1].Children, sec) + CountOf(Tail(nodes), sec)

\* the proper '/'-prefixes of a slug: what stands before each of its slashes
ProperPrefixes(slug) == {SubSeq(slug, 1, i - 1) : i \in {j \in 1..Len(slug) : slug[j] = 47}}

\* every proper prefix of the slug is the slug of a section of the list
AncestorsPresent(secs, slug) ==
    \A p \in ProperPrefixes(slug) : \E j \in 1..Len(secs) : secs[j].Slug = p

\* C30: for a list of sections with pairwise distinct non-empty slugs and a
\* depth of at least the largest number of segments of a slug, the top-level
\* tree holds every section at most once, and holds a section iff every
\* proper '/'-prefix of its slug is the slug of a section of the list; a
\* section with a missing ancestor is in no node and in no node's child count.
C30_TreeCoverage ==
    ( /\ TreeAnswered
      /\ out.rootSlug = EmptyStr
      /\ \A i, j \in 1..Len(given) : i # j => given[i].Slug # given[j].Slug
      /\ \A i \in 1..Len(given) : given[i].Slug # EmptyStr
      /\ out.depth >= WholeDepth(given) ) =>
        /\ \A k \in 1..Len(given) :
             /\ CountOf(out.res.nodes, given[k]) <= 1
             /\ (CountOf(out.res.nodes, given[k]) = 1) = AncestorsPresent(given, given[k].Slug)
        /\ CountNodes(out.res.nodes)
             = Cardinality({k \in 1..Len(given) : AncestorsPresent(given, given[k].Slug)})
        /\ \A r \in NodesAt(out.res.nodes, 1) :
             /\ r.node.ChildCount = Len(r.node.Children)
             /\ \A k \in 1..Len(given) :
                  ~AncestorsPresent(given, given[k].Slug) =>
                      \A c \in 1..Len(r.node.Children) : r.node.Children[c].Section # given[k]

\* C30 witness: the whole tree of a list that holds "a", "b" and "a/b/c":
\* "a/b/c", whose parent "a/b" is missing, is in no node, and "a" has no
\* child.
C30_Witness ==
    /\ TreeAnswered
    /\ out.rootSlug = EmptyStr
    /\ out.depth = 3
    /\ Len(given) = 3
    /\ \A i, j \in 1..Len(given) : i # j => given[i].Slug # given[j].Slug
    /\ \E k \in 1..Len(given) :
         /\ given[k].Slug = StrA \o Slash \o StrB \o Slash \o <<99>>
         /\ CountOf(out.res.nodes, given[k]) = 0
    /\ Len(out.res.nodes) = 2
    /\ \A i \in 1..2 : out.res.nodes[i].ChildCount = 0

====
